---- MODULE Spec2Model ----
(***************************************************************************)
(* Model of folio_data_import: the MARC batch-submission job               *)
(* (MARCDataImport.MARCImportJob) and the concurrent user upsert           *)
(* (UserImport.UserImporter).                                              *)
(***************************************************************************)
EXTENDS Integers, Sequences, FiniteSets, TLC

\* ---------------------------------------------------------------- bounds
MaxFiles == 2
MaxRecs == 3
MaxBatch == 2
MaxRetries == 2
MaxUnits == 2
MaxWidth == 2
\* reference list entries of one candidate (addresses, departments and
\* service points together)
MaxRefs == 2

\* ------------------------------------------------------ program constants
RETRY_TIMEOUT_START == 1
RETRY_TIMEOUT_RETRY_FACTOR == 2

VARIABLES
    \* --- MARCImportJob: configuration and environment
    import_files,            \* the input files, each a sequence of record kinds
    batch_size,
    consolidate_files,
    let_summary_fail,
    profile_in_catalog,      \* a profile with the configured name exists remotely
    import_complete_exists,  \* the import_complete directory exists
    \* --- MARCImportJob: object state
    current_file,            \* sequence of indices into import_files
    job_id,                  \* 0 before the first job
    record_batch,
    error_records,
    last_current,
    total_records_sent,
    finished,
    current_retry_timeout,   \* 0 stands for None
    pbar_sent,               \* [n, total]
    pbar_imported,
    bad_records_file,        \* records written to the bad-record archive
    failed_batches_file,     \* records written to the failed-batch archive
    bad_file_exists,
    failed_file_exists,
    \* --- locals of do_work / import_marc_file / process_records
    file_i,                  \* next file of do_work's loop
    total_records,
    counter,
    fidx,                    \* position in current_file
    ridx,                    \* position of the reader in the file
    batch_payload,
    post_attempts,           \* timeouts of the request being retried
    pc,
    post_ret,
    poll_ret,
    \* --- the remote system, as seen through the requests issued
    job_requests,            \* job-creation requests issued
    jobs,                    \* per job: what has been done to it
    posts,                   \* batches submitted to the current job, in order
    post_status,             \* status of the answer being handled, 0 if none
    summary_requests,        \* summary requests issued for the current job
    raised                   \* the exception that ended the run, and where

VARIABLES
    \* --- UserImporter: input, configuration and the remote users
    user_lines,                   \* the lines of the user file
    user_batch_size,              \* UserImporter.batch_size
    limit_async_requests,         \* the width the semaphore is created with
    remote_users,                 \* match-key values of the users that exist
    \* --- UserImporter: object state
    limit_simultaneous_requests,  \* the semaphore's value
    logs,
    errorfile,                    \* line numbers whose document was written
    \* --- process_file and the process_line tasks
    tasks,                        \* line numbers of the batch being gathered
    line_number,                  \* next line process_file reads
    file_pc,
    task,                         \* per line: the task's position and locals
    counted                       \* per line: the counters it incremented

VARIABLES
    \* --- one call of process_line, step by step
    line,            \* the line handed to process_line
    unit_pc,
    raised_at,       \* the call the exception left process_line from
    user_obj,        \* the candidate document as mapped so far
    existing_user,   \* the locals process_existing_user returns, by truth value
    existing_rp,
    existing_pu,
    existing_spu,
    new_user_obj,    \* what create_or_update_user returned, by truth value
    requests,        \* the requests sent, in order, with their answers
    logfile          \* the error messages written to the log file

unit_vars == << line, unit_pc, raised_at, user_obj, existing_user, existing_rp,
                existing_pu, existing_spu, new_user_obj, requests, logfile >>

user_vars == << user_lines, user_batch_size, limit_async_requests,
                remote_users, limit_simultaneous_requests, logs, errorfile,
                tasks, line_number, file_pc, task, counted >>

marc_vars == << import_files, batch_size, consolidate_files, let_summary_fail,
                profile_in_catalog, import_complete_exists, current_file, job_id,
                record_batch, error_records, last_current, total_records_sent,
                finished, current_retry_timeout, pbar_sent, pbar_imported,
                bad_records_file, failed_batches_file, bad_file_exists,
                failed_file_exists, file_i, total_records, counter, fidx, ridx,
                batch_payload, post_attempts, pc, post_ret, poll_ret,
                job_requests, jobs, posts, post_status,
                summary_requests, raised >>

\* one call of get_protected_fields and update_existing_user
VARIABLES
    merge_pc,                   \* "fetched", "protected", "sent", "raised"
    candidate,                  \* user_obj as it reaches update_existing_user
    fetched_user,               \* existing_user as get_existing_user returned it
    merging_user,               \* existing_user as the two functions mutate it
    protected_fields,           \* the result of get_protected_fields
    fields_to_protect,          \* self.fields_to_protect
    only_update_present_fields, \* self.only_update_present_fields
    put_body                    \* the json of the PUT /users/{id}

merge_vars == << merge_pc, candidate, fetched_user, merging_user,
                 protected_fields, fields_to_protect,
                 only_update_present_fields, put_body >>

\* the reference resolution of one candidate
VARIABLES
    map_pc,         \* the next step of process_line, "done", "raised"
    input_user,     \* user_obj as process_user_obj returned it
    input_spu,      \* spu_obj as process_existing_user popped it
    mapping_user,   \* user_obj as the map_* functions mutate it
    mapping_spu,    \* spu_obj as map_service_points mutates it
    user_request,   \* the json of the create or update request, if sent
    spu_request,    \* the json of the service-points-user request, if sent
    again_user,     \* mapping_user resolved a second time
    again_spu       \* mapping_spu resolved a second time

map_vars == << map_pc, input_user, input_spu, mapping_user, mapping_spu,
               user_request, spu_request, again_user, again_spu >>

\* read_total_records over the opened files, and the reading that follows it
VARIABLES
    count_pc,       \* "count", "decode", "done"
    files,          \* the opened streams: the chunks they hold and their offset
    terminators,       \* the result of read_total_records
    yielded,        \* what the readers have yielded: records and None
    file_n          \* the stream process_records is reading

count_vars == << count_pc, files, terminators, yielded, file_n >>

\* one reference map of UserImporter, from its construction on
VARIABLES
    ref_pc,         \* "construct", "run"
    ref_call,       \* the endpoint, key and name of the build_ref_data_id_map call
    ref_items,      \* what folio_get_all(endpoint, key) returns
    ref_map,        \* the map __init__ stores
    ref_resolved    \* what the last lookup in the map gave

ref_vars == << ref_pc, ref_call, ref_items, ref_map, ref_resolved >>

lookup_vars == << count_vars, ref_vars >>

vars == << marc_vars, user_vars, unit_vars, merge_vars, map_vars, lookup_vars >>

\* ------------------------------------------------------------ input model
\* A chunk the reader yields: "ok" decodes to a record, "bad" does not.
RecordKinds == {"ok", "bad"}

\* Number of record terminators (0x1d) in a chunk of the given kind.
Terminators(kind) == 1

SeqsUpTo(S, n) == UNION { [1..k -> S] : k \in 0..n }

FileContents == SeqsUpTo(RecordKinds, MaxRecs)

RECURSIVE TotalLen(_)
TotalLen(fs) == IF fs = << >> THEN 0 ELSE Len(Head(fs)) + TotalLen(Tail(fs))

\* up to MaxFiles files holding up to MaxRecs chunks between them
FileLists == { fs \in UNION { [1..k -> FileContents] : k \in 1..MaxFiles } :
                 TotalLen(fs) <= MaxRecs }

\* no exception has left do_work
NotRaised == [exc |-> "none", at |-> "none", status |-> 0]

NoPayload == [last |-> FALSE, counter |-> 0, total |-> 0, initialRecords |-> << >>]

NewJob(fs) == [profile |-> FALSE, files |-> fs, terminal_seen |-> FALSE,
               streamed |-> FALSE, summary_returned |-> FALSE]

\* --------------------------------------------------------- pure functions
RECURSIVE SumTerminators(_)
SumTerminators(chunks) ==
    IF chunks = << >> THEN 0
    ELSE Terminators(Head(chunks)) + SumTerminators(Tail(chunks))

RECURSIVE read_total_records(_)
read_total_records(fs) ==
    IF fs = << >> THEN 0
    ELSE SumTerminators(import_files[Head(fs)]) + read_total_records(Tail(fs))

\* the is_last argument process_records passes to create_batch_payload
IsLast(cnt, total, errs) == (cnt - errs) = (total - errs)

create_batch_payload(cnt, total, is_last) ==
    [last |-> is_last,
     counter |-> cnt - error_records,
     total |-> total - error_records,
     initialRecords |-> record_batch]

\* a variant that treats only 500 as counted-as-sent
RecoverableOnly500(status) == status \in {500}

\* statuses of a batch submission that count the batch as sent
RecoverableStatus(status) == status \in {500, 422}

\* the retry timeout set at the start of get_job_status / get_job_summary
NextRetryTimeout(t) ==
    IF t # 0 THEN t * RETRY_TIMEOUT_RETRY_FACTOR ELSE RETRY_TIMEOUT_START

\* a variant of the loop that leaves it after the first record of the batch
FailedBatchFirstOnly(recs, n, st) ==
    IF recs = << >> THEN st
    ELSE [file |-> Append(st.file, Head(recs)),
          errs |-> st.errs + n,
          total |-> st.total - n]

\* the loop of process_record_batch over a batch whose submission failed:
\* st = [file, errs, total], n = len(self.record_batch)
RECURSIVE FailedBatchLoop(_, _, _)
FailedBatchLoop(recs, n, st) ==
    IF recs = << >> THEN st
    ELSE FailedBatchLoop(Tail(recs), n,
            [file |-> Append(st.file, Head(recs)),
             errs |-> st.errs + n,
             total |-> st.total - n])

\* a variant that never waits for the job to finish
PollingSkipped(fin) == TRUE

\* the while condition of import_marc_file's polling loop
PollingDone(fin) == fin

\* ------------------------------------------------------------------- Init
MarcInit ==
    /\ import_files \in FileLists
    /\ batch_size \in 1..MaxBatch
    /\ consolidate_files \in BOOLEAN
    /\ let_summary_fail \in BOOLEAN
    /\ profile_in_catalog \in BOOLEAN
    /\ import_complete_exists \in BOOLEAN
    /\ current_file = << >>
    /\ job_id = 0
    /\ record_batch = << >>
    /\ error_records = 0
    /\ last_current = 0
    /\ total_records_sent = 0
    /\ finished = FALSE
    /\ current_retry_timeout = 0
    /\ pbar_sent = [n |-> 0, total |-> 0]
    /\ pbar_imported = 0
    /\ bad_records_file = << >>
    /\ failed_batches_file = << >>
    /\ bad_file_exists = TRUE
    /\ failed_file_exists = TRUE
    /\ file_i = 1
    /\ total_records = 0
    /\ counter = 0
    /\ fidx = 1
    /\ ridx = 1
    /\ batch_payload = NoPayload
    /\ post_attempts = 0
    /\ pc = "do_work"
    /\ post_ret = "none"
    /\ poll_ret = "none"
    /\ job_requests = 0
    /\ jobs = << >>
    /\ posts = << >>
    /\ post_status = 0
    /\ summary_requests = 0
    /\ raised = NotRaised

\* variables that no step of a run changes
cfg_vars == << import_files, batch_size, consolidate_files, let_summary_fail,
               profile_in_catalog, import_complete_exists >>

archive_vars == << bad_records_file, failed_batches_file, bad_file_exists,
                   failed_file_exists >>

poll_vars == << last_current, finished, current_retry_timeout, pbar_imported >>

reader_vars == << total_records, counter, fidx, ridx >>

remote_vars == << job_requests, jobs, posts, post_status, summary_requests >>

\* the exception of a request that got no answer; httpx.ReadTimeout is caught
\* by the same clauses as httpx.ConnectTimeout
Timeouts == {"ConnectTimeout"}

\* an error status of an answer other than 502 and 504
OtherErrorStatuses == {400}

\* an exception leaves do_work
Abort(exc, status) ==
    /\ pc' = "aborted"
    /\ raised' = [exc |-> exc, at |-> pc, status |-> status]

\* the ways a request fails: a timeout or an error status
Failures ==
    [exc : Timeouts, status : {0}]
        \cup [exc : {"HTTPStatusError"}, status : OtherErrorStatuses]

CurFile == import_files[current_file[fidx]]

\* the retry timeout after MaxRetries consecutive retries of one request
MaxTimeout == RETRY_TIMEOUT_START * (RETRY_TIMEOUT_RETRY_FACTOR ^ (MaxRetries - 1))

\* ---------------------------------------------------------------- do_work
\* do_work: one pass of "for file in self.import_files" (or the single
\* consolidated call), up to the call of import_marc_file.
StartJob ==
    /\ pc = "do_work"
    /\ file_i <= Len(import_files)
    /\ IF consolidate_files
          THEN /\ current_file' = [i \in 1..Len(import_files) |-> i]
               /\ file_i' = Len(import_files) + 1
          ELSE /\ current_file' = << file_i >>
               /\ file_i' = file_i + 1
    /\ pc' = "create_job"
    /\ UNCHANGED << user_vars, unit_vars, lookup_vars, map_vars, merge_vars,
                    cfg_vars, remote_vars, archive_vars, poll_vars, reader_vars,
                    job_id, record_batch, error_records, total_records_sent,
                    pbar_sent, batch_payload, post_attempts, post_ret, poll_ret,
                    raised >>

\* a variant that removes neither file
WrapUpRemovesNothing ==
    /\ pc = "do_work"
    /\ file_i > Len(import_files)
    /\ bad_file_exists' = bad_file_exists
    /\ failed_file_exists' = failed_file_exists
    /\ pc' = "done"
    /\ UNCHANGED << user_vars, unit_vars, lookup_vars, map_vars, merge_vars,
                    cfg_vars, remote_vars, poll_vars, reader_vars, current_file,
                    job_id, record_batch, error_records, total_records_sent,
                    pbar_sent, bad_records_file, failed_batches_file, file_i,
                    batch_payload, post_attempts, post_ret, poll_ret, raised >>

\* wrap_up: each archive is reopened and removed when no byte is visible.
\* The writers are still open and buffered, so written bytes may or may not
\* have reached the file.
WrapUp ==
    /\ pc = "do_work"
    /\ file_i > Len(import_files)
    /\ \E bad_visible \in (IF bad_records_file = << >> THEN {FALSE} ELSE BOOLEAN),
          failed_visible \in (IF failed_batches_file = << >> THEN {FALSE} ELSE BOOLEAN) :
            /\ bad_file_exists' = bad_visible
            /\ failed_file_exists' = failed_visible
    /\ pc' = "done"
    /\ UNCHANGED << user_vars, unit_vars, lookup_vars, map_vars, merge_vars,
                    cfg_vars, remote_vars, poll_vars, reader_vars, current_file,
                    job_id, record_batch, error_records, total_records_sent,
                    pbar_sent, bad_records_file, failed_batches_file, file_i,
                    batch_payload, post_attempts, post_ret, poll_ret, raised >>

\* ------------------------------------------------ create_folio_import_job
CreateJobOk ==
    /\ pc = "create_job"
    /\ job_requests' = job_requests + 1
    /\ jobs' = Append(jobs, NewJob(current_file))
    /\ posts' = << >>
    /\ summary_requests' = 0
    /\ job_id' = Len(jobs) + 1
    /\ pc' = "set_profile"
    /\ UNCHANGED << user_vars, unit_vars, lookup_vars, map_vars, merge_vars,
                    cfg_vars, archive_vars, poll_vars, reader_vars, current_file,
                    record_batch, error_records, total_records_sent, pbar_sent,
                    file_i, batch_payload, post_attempts, post_ret, poll_ret,
                    post_status, raised >>

\* an error status is logged and raised; a timeout is not caught at all
CreateJobFail ==
    /\ pc = "create_job"
    /\ job_requests' = job_requests + 1
    /\ \E f \in Failures : Abort(f.exc, f.status)
    /\ UNCHANGED << user_vars, unit_vars, lookup_vars, map_vars, merge_vars,
                    cfg_vars, archive_vars, poll_vars, reader_vars, current_file,
                    job_id, record_batch, error_records, total_records_sent,
                    pbar_sent, file_i, batch_payload, post_attempts, post_ret,
                    poll_ret, jobs, posts, post_status, summary_requests >>

\* ------------------------------------------ import_profile, set_job_profile
\* import_profile: "[...][0]" over the profiles with the configured name
ProfileNotFound ==
    /\ pc = "set_profile"
    /\ ~profile_in_catalog
    /\ Abort("IndexError", 0)
    /\ UNCHANGED << user_vars, unit_vars, lookup_vars, map_vars, merge_vars,
                    cfg_vars, remote_vars, archive_vars, poll_vars, reader_vars,
                    current_file, job_id, record_batch, error_records,
                    total_records_sent, pbar_sent, file_i, batch_payload,
                    post_attempts, post_ret, poll_ret >>

SetJobProfileOk ==
    /\ pc = "set_profile"
    /\ profile_in_catalog
    /\ jobs' = [jobs EXCEPT ![job_id].profile = TRUE]
    /\ pc' = "read_total"
    /\ UNCHANGED << user_vars, unit_vars, lookup_vars, map_vars, merge_vars,
                    cfg_vars, archive_vars, poll_vars, reader_vars, current_file,
                    job_id, record_batch, error_records, total_records_sent,
                    pbar_sent, file_i, batch_payload, post_attempts, post_ret,
                    poll_ret, job_requests, posts, post_status, summary_requests,
                    raised >>

SetJobProfileFail ==
    /\ pc = "set_profile"
    /\ profile_in_catalog
    /\ \E f \in Failures : Abort(f.exc, f.status)
    /\ UNCHANGED << user_vars, unit_vars, lookup_vars, map_vars, merge_vars,
                    cfg_vars, remote_vars, archive_vars, poll_vars, reader_vars,
                    current_file, job_id, record_batch, error_records,
                    total_records_sent, pbar_sent, file_i, batch_payload,
                    post_attempts, post_ret, poll_ret >>

\* import_marc_file: open the files, count the records, set up the bars
OpenAndCount ==
    /\ pc = "read_total"
    /\ total_records' = read_total_records(current_file)
    /\ pbar_sent' = [n |-> 0, total |-> total_records']
    /\ pbar_imported' = 0
    /\ counter' = 0
    /\ fidx' = 1
    /\ ridx' = 1
    /\ pc' = "records"
    /\ UNCHANGED << user_vars, unit_vars, lookup_vars, map_vars, merge_vars,
                    cfg_vars, remote_vars, archive_vars, current_file, job_id,
                    record_batch, error_records, last_current, total_records_sent,
                    finished, current_retry_timeout, file_i, batch_payload,
                    post_attempts, post_ret, poll_ret, raised >>

\* -------------------------------------------------------- process_records
\* the loop finds the batch full before it looks at the record just read
SubmitFullBatch ==
    /\ pc = "records"
    /\ ridx <= Len(CurFile)
    /\ Len(record_batch) = batch_size
    /\ batch_payload' = create_batch_payload(counter, total_records,
                            IsLast(counter, total_records, error_records))
    /\ post_attempts' = 0
    /\ post_ret' = "loop"
    /\ pc' = "post"
    /\ UNCHANGED << user_vars, unit_vars, lookup_vars, map_vars, merge_vars,
                    cfg_vars, remote_vars, archive_vars, poll_vars, reader_vars,
                    current_file, job_id, record_batch, error_records,
                    total_records_sent, pbar_sent, file_i, poll_ret, raised >>

AppendRecord ==
    /\ pc = "records"
    /\ ridx <= Len(CurFile)
    /\ Len(record_batch) # batch_size
    /\ CurFile[ridx] = "ok"
    /\ record_batch' = Append(record_batch, << current_file[fidx], ridx >>)
    /\ counter' = counter + 1
    /\ ridx' = ridx + 1
    /\ UNCHANGED << user_vars, unit_vars, lookup_vars, map_vars, merge_vars,
                    cfg_vars, remote_vars, archive_vars, poll_vars, current_file,
                    job_id, error_records, total_records_sent, pbar_sent, file_i,
                    total_records, fidx, batch_payload, post_attempts, pc,
                    post_ret, poll_ret, raised >>

BadRecord ==
    /\ pc = "records"
    /\ ridx <= Len(CurFile)
    /\ Len(record_batch) # batch_size
    /\ CurFile[ridx] # "ok"
    /\ bad_records_file' = Append(bad_records_file, << current_file[fidx], ridx >>)
    /\ ridx' = ridx + 1
    /\ UNCHANGED << user_vars, unit_vars, lookup_vars, map_vars, merge_vars,
                    cfg_vars, remote_vars, poll_vars, current_file, job_id,
                    record_batch, error_records, total_records_sent, pbar_sent,
                    failed_batches_file, bad_file_exists, failed_file_exists,
                    file_i, total_records, counter, fidx, batch_payload,
                    post_attempts, pc, post_ret, poll_ret, raised >>

\* "if self.record_batch:" after the reader of one file is exhausted
FlushAtEndOfFile ==
    /\ pc = "records"
    /\ ridx > Len(CurFile)
    /\ record_batch # << >>
    /\ batch_payload' = create_batch_payload(counter, total_records,
                            IsLast(counter, total_records, error_records))
    /\ post_attempts' = 0
    /\ post_ret' = "eof"
    /\ pc' = "post"
    /\ UNCHANGED << user_vars, unit_vars, lookup_vars, map_vars, merge_vars,
                    cfg_vars, remote_vars, archive_vars, poll_vars, reader_vars,
                    current_file, job_id, record_batch, error_records,
                    total_records_sent, pbar_sent, file_i, poll_ret, raised >>

EndOfFile ==
    /\ pc = "records"
    /\ ridx > Len(CurFile)
    /\ record_batch = << >>
    /\ pc' = "rename"
    /\ UNCHANGED << user_vars, unit_vars, lookup_vars, map_vars, merge_vars,
                    cfg_vars, remote_vars, archive_vars, poll_vars, reader_vars,
                    current_file, job_id, record_batch, error_records,
                    total_records_sent, pbar_sent, file_i, batch_payload,
                    post_attempts, post_ret, poll_ret, raised >>

\* the file is moved to import_complete, which is created only if it exists
RenameOk ==
    /\ pc = "rename"
    /\ import_complete_exists
    /\ IF fidx < Len(current_file)
          THEN /\ fidx' = fidx + 1
               /\ ridx' = 1
               /\ pc' = "records"
               /\ jobs' = jobs
          ELSE /\ UNCHANGED << fidx, ridx >>
               /\ pc' = "wait"
               /\ jobs' = [jobs EXCEPT ![job_id].streamed = TRUE]
    /\ UNCHANGED << user_vars, unit_vars, lookup_vars, map_vars, merge_vars,
                    cfg_vars, archive_vars, poll_vars, current_file, job_id,
                    record_batch, error_records, total_records_sent, pbar_sent,
                    file_i, total_records, counter, batch_payload, post_attempts,
                    post_ret, poll_ret, job_requests, posts, post_status,
                    summary_requests, raised >>

RenameFail ==
    /\ pc = "rename"
    /\ ~import_complete_exists
    /\ Abort("FileNotFoundError", 0)
    /\ UNCHANGED << user_vars, unit_vars, lookup_vars, map_vars, merge_vars,
                    cfg_vars, remote_vars, archive_vars, poll_vars, reader_vars,
                    current_file, job_id, record_batch, error_records,
                    total_records_sent, pbar_sent, file_i, batch_payload,
                    post_attempts, post_ret, poll_ret >>

\* --------------------------------------------------- process_record_batch
\* a variant in which a timeout of the submission leaves do_work
PostTimeoutAborts ==
    /\ pc = "post"
    /\ post_attempts < MaxRetries
    /\ \E exc \in Timeouts : Abort(exc, 0)
    /\ UNCHANGED << user_vars, unit_vars, lookup_vars, map_vars, merge_vars,
                    cfg_vars, remote_vars, archive_vars, poll_vars, reader_vars,
                    current_file, job_id, record_batch, error_records,
                    total_records_sent, pbar_sent, file_i, batch_payload,
                    post_attempts, post_ret, poll_ret >>

\* connect or read timeout: sleep and post the same payload again
PostTimeout ==
    /\ pc = "post"
    /\ post_attempts < MaxRetries
    /\ post_attempts' = post_attempts + 1
    /\ UNCHANGED << user_vars, unit_vars, lookup_vars, map_vars, merge_vars,
                    cfg_vars, remote_vars, archive_vars, poll_vars, reader_vars,
                    current_file, job_id, record_batch, error_records,
                    total_records_sent, pbar_sent, file_i, batch_payload, pc,
                    post_ret, poll_ret, raised >>

\* the request reaches the job and is answered with a status
PostAnswered ==
    /\ pc = "post"
    /\ \E status \in {201, 400, 422, 500} : post_status' = status
    /\ posts' = Append(posts, batch_payload)
    /\ post_attempts' = 0
    /\ pc' = "posted"
    /\ UNCHANGED << user_vars, unit_vars, lookup_vars, map_vars, merge_vars,
                    cfg_vars, archive_vars, poll_vars, reader_vars, current_file,
                    job_id, record_batch, error_records, total_records_sent,
                    pbar_sent, file_i, batch_payload, post_ret, poll_ret,
                    job_requests, jobs, summary_requests, raised >>

\* where process_records continues after process_record_batch returns
AfterPost ==
    /\ post_status' = 0
    /\ IF post_ret = "loop"
          THEN /\ pc' = "poll"
               /\ poll_ret' = "records"
          ELSE /\ pc' = "rename"
               /\ poll_ret' = poll_ret

\* what both the success branch and the 500/422 branch do
CountAsSent ==
    /\ total_records_sent' = total_records_sent + Len(record_batch)
    /\ record_batch' = << >>
    /\ pbar_sent' = [pbar_sent EXCEPT !.n = @ + Len(batch_payload.initialRecords)]
    /\ UNCHANGED << error_records, archive_vars >>

\* raise_for_status passes
PostOk ==
    /\ pc = "posted"
    /\ post_status = 201
    /\ CountAsSent
    /\ AfterPost
    /\ UNCHANGED << user_vars, unit_vars, lookup_vars, map_vars, merge_vars,
                    cfg_vars, poll_vars, reader_vars, current_file, job_id,
                    file_i, batch_payload, post_attempts, post_ret, job_requests,
                    jobs, posts, summary_requests, raised >>

\* raise_for_status raises with status 500 or 422
PostRecoverable ==
    /\ pc = "posted"
    /\ post_status # 201
    /\ RecoverableStatus(post_status)
    /\ CountAsSent
    /\ AfterPost
    /\ UNCHANGED << user_vars, unit_vars, lookup_vars, map_vars, merge_vars,
                    cfg_vars, poll_vars, reader_vars, current_file, job_id,
                    file_i, batch_payload, post_attempts, post_ret, job_requests,
                    jobs, posts, summary_requests, raised >>

\* raise_for_status raises with any other status
PostFailed ==
    /\ pc = "posted"
    /\ post_status # 201
    /\ ~RecoverableStatus(post_status)
    /\ LET st == FailedBatchLoop(record_batch, Len(record_batch),
                     [file |-> failed_batches_file, errs |-> error_records,
                      total |-> pbar_sent.total])
       IN /\ failed_batches_file' = st.file
          /\ error_records' = st.errs
          /\ pbar_sent' = [pbar_sent EXCEPT !.total = st.total]
    /\ record_batch' = << >>
    /\ AfterPost
    /\ UNCHANGED << user_vars, unit_vars, lookup_vars, map_vars, merge_vars,
                    cfg_vars, poll_vars, reader_vars, current_file, job_id,
                    total_records_sent, bad_records_file, bad_file_exists,
                    failed_file_exists, file_i, batch_payload, post_attempts,
                    post_ret, job_requests, jobs, posts, summary_requests, raised >>

\* --------------------------------------------------------- get_job_status
\* progress.current values the listings may report for the job
ProgressValues == 0..total_records_sent

\* a variant that takes a job found in the active listing for a finished one
PollActiveFoundFinishes ==
    /\ pc = "poll"
    /\ \E current \in ProgressValues :
        /\ pbar_imported' = pbar_imported + (current - last_current)
        /\ last_current' = current
    /\ current_retry_timeout' = 0
    /\ finished' = TRUE
    /\ pc' = poll_ret
    /\ UNCHANGED << user_vars, unit_vars, lookup_vars, map_vars, merge_vars,
                    cfg_vars, remote_vars, archive_vars, reader_vars,
                    current_file, job_id, record_batch, error_records,
                    total_records_sent, pbar_sent, file_i, batch_payload,
                    post_attempts, post_ret, poll_ret, raised >>

\* the job is in the active listing
PollActiveFound ==
    /\ pc = "poll"
    /\ \E current \in ProgressValues :
        /\ pbar_imported' = pbar_imported + (current - last_current)
        /\ last_current' = current
    /\ current_retry_timeout' = 0
    /\ pc' = poll_ret
    /\ UNCHANGED << user_vars, unit_vars, lookup_vars, map_vars, merge_vars,
                    cfg_vars, remote_vars, archive_vars, reader_vars,
                    current_file, job_id, record_batch, error_records,
                    total_records_sent, finished, pbar_sent, file_i,
                    batch_payload, post_attempts, post_ret, poll_ret, raised >>

\* the job is not in the active listing: IndexError, query the terminal one
PollActiveAbsent ==
    /\ pc = "poll"
    /\ current_retry_timeout' = 0
    /\ pc' = "poll_terminal"
    /\ UNCHANGED << user_vars, unit_vars, lookup_vars, map_vars, merge_vars,
                    cfg_vars, remote_vars, archive_vars, reader_vars,
                    current_file, job_id, record_batch, error_records,
                    last_current, total_records_sent, finished, pbar_sent,
                    pbar_imported, file_i, batch_payload, post_attempts, post_ret,
                    poll_ret, raised >>

\* timeout, 502 or 504 on the active listing: call get_job_status again
PollActiveTransient ==
    /\ pc = "poll"
    /\ NextRetryTimeout(current_retry_timeout) <= MaxTimeout
    /\ current_retry_timeout' = NextRetryTimeout(current_retry_timeout)
    /\ UNCHANGED << user_vars, unit_vars, lookup_vars, map_vars, merge_vars,
                    cfg_vars, remote_vars, archive_vars, reader_vars,
                    current_file, job_id, record_batch, error_records,
                    last_current, total_records_sent, finished, pbar_sent,
                    pbar_imported, file_i, batch_payload, post_attempts, pc,
                    post_ret, poll_ret, raised >>

\* any other error status on the active listing is raised
PollActiveError ==
    /\ pc = "poll"
    /\ current_retry_timeout' = NextRetryTimeout(current_retry_timeout)
    /\ \E status \in OtherErrorStatuses : Abort("HTTPStatusError", status)
    /\ UNCHANGED << user_vars, unit_vars, lookup_vars, map_vars, merge_vars,
                    cfg_vars, remote_vars, archive_vars, reader_vars,
                    current_file, job_id, record_batch, error_records,
                    last_current, total_records_sent, finished, pbar_sent,
                    pbar_imported, file_i, batch_payload, post_attempts, post_ret,
                    poll_ret >>

\* a variant that sees the job in the terminal listing without noting it
PollTerminalFoundUnnoted ==
    /\ pc = "poll_terminal"
    /\ \E current \in ProgressValues :
        /\ pbar_imported' = pbar_imported + (current - last_current)
        /\ last_current' = current
    /\ finished' = finished
    /\ jobs' = [jobs EXCEPT ![job_id].terminal_seen = TRUE]
    /\ pc' = poll_ret
    /\ UNCHANGED << user_vars, unit_vars, lookup_vars, map_vars, merge_vars,
                    cfg_vars, archive_vars, reader_vars, current_file, job_id,
                    record_batch, error_records, total_records_sent,
                    current_retry_timeout, pbar_sent, file_i, batch_payload,
                    post_attempts, post_ret, poll_ret, job_requests, posts,
                    post_status, summary_requests, raised >>

\* the job is in the terminal listing
PollTerminalFound ==
    /\ pc = "poll_terminal"
    /\ \E current \in ProgressValues :
        /\ pbar_imported' = pbar_imported + (current - last_current)
        /\ last_current' = current
    /\ finished' = TRUE
    /\ jobs' = [jobs EXCEPT ![job_id].terminal_seen = TRUE]
    /\ pc' = poll_ret
    /\ UNCHANGED << user_vars, unit_vars, lookup_vars, map_vars, merge_vars,
                    cfg_vars, archive_vars, reader_vars, current_file, job_id,
                    record_batch, error_records, total_records_sent,
                    current_retry_timeout, pbar_sent, file_i, batch_payload,
                    post_attempts, post_ret, poll_ret, job_requests, posts,
                    post_status, summary_requests, raised >>

\* a variant that marks the job finished before the IndexError leaves
PollTerminalAbsentFinishes ==
    /\ pc = "poll_terminal"
    /\ finished' = TRUE
    /\ Abort("IndexError", 0)
    /\ UNCHANGED << user_vars, unit_vars, lookup_vars, map_vars, merge_vars,
                    cfg_vars, remote_vars, archive_vars, reader_vars,
                    current_file, job_id, record_batch, error_records,
                    last_current, total_records_sent, current_retry_timeout,
                    pbar_sent, pbar_imported, file_i, batch_payload,
                    post_attempts, post_ret, poll_ret >>

\* the job is in neither listing: the IndexError is not caught
PollTerminalAbsent ==
    /\ pc = "poll_terminal"
    /\ Abort("IndexError", 0)
    /\ UNCHANGED << user_vars, unit_vars, lookup_vars, map_vars, merge_vars,
                    cfg_vars, remote_vars, archive_vars, poll_vars, reader_vars,
                    current_file, job_id, record_batch, error_records,
                    total_records_sent, pbar_sent, file_i, batch_payload,
                    post_attempts, post_ret, poll_ret >>

\* timeout, 502 or 504 on the terminal listing: call get_job_status again
PollTerminalTransient ==
    /\ pc = "poll_terminal"
    /\ pc' = "poll"
    /\ UNCHANGED << user_vars, unit_vars, lookup_vars, map_vars, merge_vars,
                    cfg_vars, remote_vars, archive_vars, poll_vars, reader_vars,
                    current_file, job_id, record_batch, error_records,
                    total_records_sent, pbar_sent, file_i, batch_payload,
                    post_attempts, post_ret, poll_ret, raised >>

PollTerminalError ==
    /\ pc = "poll_terminal"
    /\ \E status \in OtherErrorStatuses : Abort("HTTPStatusError", status)
    /\ UNCHANGED << user_vars, unit_vars, lookup_vars, map_vars, merge_vars,
                    cfg_vars, remote_vars, archive_vars, poll_vars, reader_vars,
                    current_file, job_id, record_batch, error_records,
                    total_records_sent, pbar_sent, file_i, batch_payload,
                    post_attempts, post_ret, poll_ret >>

\* ------------------------------------- import_marc_file, after the records
\* "while not self.finished: await self.get_job_status()"
WaitPoll ==
    /\ pc = "wait"
    /\ ~PollingDone(finished)
    /\ pc' = "poll"
    /\ poll_ret' = "wait"
    /\ UNCHANGED << user_vars, unit_vars, lookup_vars, map_vars, merge_vars,
                    cfg_vars, remote_vars, archive_vars, poll_vars, reader_vars,
                    current_file, job_id, record_batch, error_records,
                    total_records_sent, pbar_sent, file_i, batch_payload,
                    post_attempts, post_ret, raised >>

\* the tail of import_marc_file
ResetJobState ==
    /\ last_current' = 0
    /\ finished' = FALSE
    /\ pc' = "do_work"

\* the loop is left; "if self.finished:" decides whether a summary is fetched
WaitDone ==
    /\ pc = "wait"
    /\ PollingDone(finished)
    /\ IF finished
          THEN /\ pc' = "summary"
               /\ UNCHANGED << last_current, finished >>
          ELSE ResetJobState
    /\ UNCHANGED << user_vars, unit_vars, lookup_vars, map_vars, merge_vars,
                    cfg_vars, remote_vars, archive_vars, reader_vars,
                    current_file, job_id, record_batch, error_records,
                    total_records_sent, current_retry_timeout, pbar_sent,
                    pbar_imported, file_i, batch_payload, post_attempts, post_ret,
                    poll_ret, raised >>

\* -------------------------------------------------------- get_job_summary
SummaryOk ==
    /\ pc = "summary"
    /\ summary_requests' = summary_requests + 1
    /\ jobs' = [jobs EXCEPT ![job_id].summary_returned = TRUE]
    /\ current_retry_timeout' = 0
    /\ ResetJobState
    /\ UNCHANGED << user_vars, unit_vars, lookup_vars, map_vars, merge_vars,
                    cfg_vars, archive_vars, reader_vars, current_file, job_id,
                    record_batch, error_records, total_records_sent, pbar_sent,
                    pbar_imported, file_i, batch_payload, post_attempts, post_ret,
                    poll_ret, job_requests, posts, post_status, raised >>

\* a timeout, or 502/504 without let_summary_fail: call get_job_summary again
SummaryRetry ==
    /\ pc = "summary"
    /\ NextRetryTimeout(current_retry_timeout) <= MaxTimeout
    /\ \E timed_out \in BOOLEAN : timed_out \/ ~let_summary_fail
    /\ summary_requests' = summary_requests + 1
    /\ current_retry_timeout' = NextRetryTimeout(current_retry_timeout)
    /\ UNCHANGED << user_vars, unit_vars, lookup_vars, map_vars, merge_vars,
                    cfg_vars, archive_vars, reader_vars, current_file, job_id,
                    record_batch, error_records, last_current, total_records_sent,
                    finished, pbar_sent, pbar_imported, file_i, batch_payload,
                    post_attempts, pc, post_ret, poll_ret, job_requests, jobs,
                    posts, post_status, raised >>

\* a variant that gives up on 502/504 whether or not let_summary_fail is set
SummarySkippedAlways ==
    /\ pc = "summary"
    /\ summary_requests' = summary_requests + 1
    /\ jobs' = [jobs EXCEPT ![job_id].summary_returned = TRUE]
    /\ current_retry_timeout' = NextRetryTimeout(current_retry_timeout)
    /\ ResetJobState
    /\ UNCHANGED << user_vars, unit_vars, lookup_vars, map_vars, merge_vars,
                    cfg_vars, archive_vars, reader_vars, current_file, job_id,
                    record_batch, error_records, total_records_sent, pbar_sent,
                    pbar_imported, file_i, batch_payload, post_attempts, post_ret,
                    poll_ret, job_requests, posts, post_status, raised >>

\* 502/504 with let_summary_fail: the summary is {} and the run goes on
SummarySkipped ==
    /\ pc = "summary"
    /\ let_summary_fail
    /\ summary_requests' = summary_requests + 1
    /\ jobs' = [jobs EXCEPT ![job_id].summary_returned = TRUE]
    /\ current_retry_timeout' = NextRetryTimeout(current_retry_timeout)
    /\ ResetJobState
    /\ UNCHANGED << user_vars, unit_vars, lookup_vars, map_vars, merge_vars,
                    cfg_vars, archive_vars, reader_vars, current_file, job_id,
                    record_batch, error_records, total_records_sent, pbar_sent,
                    pbar_imported, file_i, batch_payload, post_attempts, post_ret,
                    poll_ret, job_requests, posts, post_status, raised >>

SummaryError ==
    /\ pc = "summary"
    /\ summary_requests' = summary_requests + 1
    /\ current_retry_timeout' = NextRetryTimeout(current_retry_timeout)
    /\ \E status \in OtherErrorStatuses : Abort("HTTPStatusError", status)
    /\ UNCHANGED << user_vars, unit_vars, lookup_vars, map_vars, merge_vars,
                    cfg_vars, archive_vars, reader_vars, current_file, job_id,
                    record_batch, error_records, last_current, total_records_sent,
                    finished, pbar_sent, pbar_imported, file_i, batch_payload,
                    post_attempts, post_ret, poll_ret, job_requests, jobs, posts,
                    post_status >>

MarcNext ==
    \/ StartJob \/ WrapUp
    \/ CreateJobOk \/ CreateJobFail
    \/ ProfileNotFound \/ SetJobProfileOk \/ SetJobProfileFail
    \/ OpenAndCount
    \/ SubmitFullBatch \/ AppendRecord \/ BadRecord
    \/ FlushAtEndOfFile \/ EndOfFile \/ RenameOk \/ RenameFail
    \/ PostTimeout \/ PostAnswered \/ PostOk \/ PostRecoverable \/ PostFailed
    \/ PollActiveFound \/ PollActiveAbsent \/ PollActiveTransient
    \/ PollActiveError
    \/ PollTerminalFound \/ PollTerminalAbsent \/ PollTerminalTransient
    \/ PollTerminalError
    \/ WaitPoll \/ WaitDone
    \/ SummaryOk \/ SummaryRetry \/ SummarySkipped \/ SummaryError

\* ======================================================== UserImporter
\* A line of the user file: whether json.loads accepts it, the value of the
\* match-key field ("none": the document has no such field), the patronGroup
\* field ("absent", a group "name" of the map, or a value "unknown" to it),
\* and whether it carries requestPreference / servicePointsUser.
Doc(key, group, rp, spu) ==
    [decodable |-> TRUE, key |-> key, patronGroup |-> group,
     requestPreference |-> rp, servicePointsUser |-> spu]

BadLine == [decodable |-> FALSE, key |-> "none", patronGroup |-> "absent",
            requestPreference |-> FALSE, servicePointsUser |-> FALSE]

UnitKinds == { BadLine,
               Doc("none", "name", FALSE, FALSE),
               Doc("k1", "name", TRUE, TRUE),
               Doc("k2", "absent", FALSE, FALSE),
               Doc("k2", "unknown", FALSE, FALSE) }

NewTask == [pc |-> "new", existing_user |-> FALSE, existing_rp |-> FALSE,
            existing_pu |-> FALSE, existing_spu |-> FALSE]

UserInit ==
    /\ user_lines \in SeqsUpTo(UnitKinds, MaxUnits) \ { << >> }
    /\ user_batch_size \in 1..MaxUnits
    /\ limit_async_requests \in 1..MaxWidth
    /\ remote_users = {"k1"}
    /\ limit_simultaneous_requests = limit_async_requests
    /\ logs = [created |-> 0, updated |-> 0, failed |-> 0]
    /\ errorfile = << >>
    /\ tasks = << >>
    /\ line_number = 1
    /\ file_pc = "reading"
    /\ task = [i \in DOMAIN user_lines |-> NewTask]
    /\ counted = [i \in DOMAIN user_lines |-> << >>]

\* positions of process_line inside "async with self.limit_simultaneous_requests"
InWorkflow == {"lookup", "lookup_sub", "write", "rp", "pu", "spu"}

\* a variant that still admits a unit when the value is zero
CanAcquireAtZero(value) == value >= 0

\* asyncio.Semaphore: acquire returns at once only while the value is positive
CanAcquire(value) == value > 0

\* json.loads in process_user_obj, then user_obj[match_key] in get_existing_user
AdmissionRaises(unit) == ~unit.decodable \/ unit.key = "none"

\* map_patron_groups: the KeyError handler reads user_obj["patronGroup"] again
MappingRaises(unit) == unit.patronGroup = "absent"

\* a variant that creates the permission user whatever was found
AfterRPAlwaysPU(t, unit) == "pu"

\* process_line after the request-preference step
AfterRP(t, unit) ==
    IF ~t.existing_pu THEN "pu"
    ELSE IF unit.servicePointsUser THEN "spu" ELSE "done"

\* process_line after the permission-user step
AfterPU(unit) == IF unit.servicePointsUser THEN "spu" ELSE "done"

\* the task moves on; leaving the "async with" block releases the semaphore
\* and the coroutine's locals are gone
MoveTo(i, t, newpc) ==
    /\ task' = [task EXCEPT ![i] = IF newpc \in InWorkflow
                                      THEN [t EXCEPT !.pc = newpc]
                                      ELSE [NewTask EXCEPT !.pc = newpc]]
    /\ limit_simultaneous_requests' =
          IF task[i].pc \in InWorkflow /\ newpc \notin InWorkflow
             THEN limit_simultaneous_requests + 1
             ELSE limit_simultaneous_requests

\* self.logs[name] += 1 by the unit of line i
Count(i, name) ==
    /\ logs' = [logs EXCEPT ![name] = @ + 1]
    /\ counted' = [counted EXCEPT ![i] = Append(@, name)]

\* ------------------------------------------------------------ process_file
\* the next batch_size lines (or the rest) become tasks and are gathered
StartBatch ==
    /\ file_pc = "reading"
    /\ line_number <= Len(user_lines)
    /\ LET last == IF line_number + user_batch_size - 1 <= Len(user_lines)
                      THEN line_number + user_batch_size - 1
                      ELSE Len(user_lines)
       IN /\ tasks' = [k \in 1..(last - line_number + 1) |-> line_number + k - 1]
          /\ task' = [i \in DOMAIN task |->
                        IF i >= line_number /\ i <= last
                           THEN [task[i] EXCEPT !.pc = "waiting"] ELSE task[i]]
          /\ line_number' = last + 1
    /\ file_pc' = "gathering"
    /\ UNCHANGED << marc_vars, unit_vars, lookup_vars, map_vars, merge_vars,
                    user_lines, user_batch_size, limit_async_requests,
                    remote_users, limit_simultaneous_requests, logs, errorfile,
                    counted >>

\* every task of the batch has returned
GatherDone ==
    /\ file_pc = "gathering"
    /\ \A k \in DOMAIN tasks : task[tasks[k]].pc = "done"
    /\ tasks' = << >>
    /\ file_pc' = "reading"
    /\ UNCHANGED << marc_vars, unit_vars, lookup_vars, map_vars, merge_vars,
                    user_lines, user_batch_size, limit_async_requests,
                    remote_users, limit_simultaneous_requests, logs, errorfile,
                    line_number, task, counted >>

\* a task of the batch has raised: gather raises and process_file with it
GatherRaises ==
    /\ file_pc = "gathering"
    /\ \E k \in DOMAIN tasks : task[tasks[k]].pc = "raised"
    /\ file_pc' = "raised"
    /\ UNCHANGED << marc_vars, unit_vars, lookup_vars, map_vars, merge_vars,
                    user_lines, user_batch_size, limit_async_requests,
                    remote_users, limit_simultaneous_requests, logs, errorfile,
                    tasks, line_number, task, counted >>

FileDone ==
    /\ file_pc = "reading"
    /\ line_number > Len(user_lines)
    /\ file_pc' = "done"
    /\ UNCHANGED << marc_vars, unit_vars, lookup_vars, map_vars, merge_vars,
                    user_lines, user_batch_size, limit_async_requests,
                    remote_users, limit_simultaneous_requests, logs, errorfile,
                    tasks, line_number, task, counted >>

\* the exception leaves main: asyncio.run cancels the tasks still pending
Shutdown ==
    /\ file_pc = "raised"
    /\ file_pc' = "exited"
    /\ task' = [i \in DOMAIN task |->
                  IF task[i].pc \in InWorkflow \cup {"waiting"}
                     THEN [NewTask EXCEPT !.pc = "cancelled"] ELSE task[i]]
    /\ limit_simultaneous_requests' = limit_async_requests
    /\ UNCHANGED << marc_vars, unit_vars, lookup_vars, map_vars, merge_vars,
                    user_lines, user_batch_size, limit_async_requests,
                    remote_users, logs, errorfile, tasks, line_number, counted >>

\* ------------------------------------------------------------ process_line
\* the semaphore is acquired; the line does not decode or has no match key
AdmitRaises(i) ==
    /\ task[i].pc = "waiting"
    /\ CanAcquire(limit_simultaneous_requests)
    /\ AdmissionRaises(user_lines[i])
    /\ MoveTo(i, task[i], "raised")
    /\ UNCHANGED << marc_vars, unit_vars, lookup_vars, map_vars, merge_vars,
                    user_lines, user_batch_size, limit_async_requests,
                    remote_users, logs, errorfile, tasks, line_number, file_pc,
                    counted >>

\* the semaphore is acquired and the lookup of the existing user is sent
Admit(i) ==
    /\ task[i].pc = "waiting"
    /\ CanAcquire(limit_simultaneous_requests)
    /\ ~AdmissionRaises(user_lines[i])
    /\ task' = [task EXCEPT ![i].pc = "lookup"]
    /\ limit_simultaneous_requests' = limit_simultaneous_requests - 1
    /\ UNCHANGED << marc_vars, unit_vars, lookup_vars, map_vars, merge_vars,
                    user_lines, user_batch_size, limit_async_requests,
                    remote_users, logs, errorfile, tasks, line_number, file_pc,
                    counted >>

\* get_existing_user finds the user; the sub-resource lookups are sent
LookupFound(i) ==
    /\ task[i].pc = "lookup"
    /\ user_lines[i].key \in remote_users
    /\ MoveTo(i, [task[i] EXCEPT !.existing_user = TRUE], "lookup_sub")
    /\ UNCHANGED << marc_vars, unit_vars, lookup_vars, map_vars, merge_vars,
                    user_lines, user_batch_size, limit_async_requests,
                    remote_users, logs, errorfile, tasks, line_number, file_pc,
                    counted >>

\* get_existing_user yields {} (no such user, an error status, a transport
\* error); the references are mapped and the create request is sent
LookupNone(i) ==
    /\ task[i].pc = "lookup"
    /\ MoveTo(i, task[i],
              IF MappingRaises(user_lines[i]) THEN "raised" ELSE "write")
    /\ UNCHANGED << marc_vars, unit_vars, lookup_vars, map_vars, merge_vars,
                    user_lines, user_batch_size, limit_async_requests,
                    remote_users, logs, errorfile, tasks, line_number, file_pc,
                    counted >>

\* get_existing_rp, get_existing_pu, get_existing_spu each find something or
\* not; the references are mapped and the update request is sent
LookupSub(i) ==
    /\ task[i].pc = "lookup_sub"
    /\ \E rp \in BOOLEAN, pu \in BOOLEAN, spu \in BOOLEAN :
         MoveTo(i, [task[i] EXCEPT !.existing_rp = rp, !.existing_pu = pu,
                                   !.existing_spu = spu],
                IF MappingRaises(user_lines[i]) THEN "raised" ELSE "write")
    /\ UNCHANGED << marc_vars, unit_vars, lookup_vars, map_vars, merge_vars,
                    user_lines, user_batch_size, limit_async_requests,
                    remote_users, logs, errorfile, tasks, line_number, file_pc,
                    counted >>

\* create_new_user succeeds
CreateOk(i) ==
    /\ task[i].pc = "write"
    /\ ~task[i].existing_user
    /\ remote_users' = remote_users \cup {user_lines[i].key}
    /\ Count(i, "created")
    /\ MoveTo(i, task[i], "rp")
    /\ UNCHANGED << marc_vars, unit_vars, lookup_vars, map_vars, merge_vars,
                    user_lines, user_batch_size, limit_async_requests, errorfile,
                    tasks, line_number, file_pc >>

\* create_new_user raises (error status or transport error)
CreateFails(i) ==
    /\ task[i].pc = "write"
    /\ ~task[i].existing_user
    /\ errorfile' = Append(errorfile, i)
    /\ Count(i, "failed")
    /\ MoveTo(i, task[i], "done")
    /\ UNCHANGED << marc_vars, unit_vars, lookup_vars, map_vars, merge_vars,
                    user_lines, user_batch_size, limit_async_requests,
                    remote_users, tasks, line_number, file_pc >>

\* the PUT of update_existing_user is answered with success
UpdateOk(i) ==
    /\ task[i].pc = "write"
    /\ task[i].existing_user
    /\ Count(i, "updated")
    /\ MoveTo(i, task[i], "rp")
    /\ UNCHANGED << marc_vars, unit_vars, lookup_vars, map_vars, merge_vars,
                    user_lines, user_batch_size, limit_async_requests,
                    remote_users, errorfile, tasks, line_number, file_pc >>

\* the PUT is answered with an error status
UpdateFails(i) ==
    /\ task[i].pc = "write"
    /\ task[i].existing_user
    /\ errorfile' = Append(errorfile, i)
    /\ Count(i, "failed")
    /\ MoveTo(i, task[i], "done")
    /\ UNCHANGED << marc_vars, unit_vars, lookup_vars, map_vars, merge_vars,
                    user_lines, user_batch_size, limit_async_requests,
                    remote_users, tasks, line_number, file_pc >>

\* the PUT raises a transport error, outside create_or_update_user's try
UpdateRaises(i) ==
    /\ task[i].pc = "write"
    /\ task[i].existing_user
    /\ MoveTo(i, task[i], "raised")
    /\ UNCHANGED << marc_vars, unit_vars, lookup_vars, map_vars, merge_vars,
                    user_lines, user_batch_size, limit_async_requests,
                    remote_users, logs, errorfile, tasks, line_number, file_pc,
                    counted >>

\* the request preference is created or updated; a failure is only logged
ReconcileRP(i) ==
    /\ task[i].pc = "rp"
    /\ MoveTo(i, task[i], AfterRP(task[i], user_lines[i]))
    /\ UNCHANGED << marc_vars, unit_vars, lookup_vars, map_vars, merge_vars,
                    user_lines, user_batch_size, limit_async_requests,
                    remote_users, logs, errorfile, tasks, line_number, file_pc,
                    counted >>

\* create_perms_user; a failure is only logged
ReconcilePU(i) ==
    /\ task[i].pc = "pu"
    /\ MoveTo(i, task[i], AfterPU(user_lines[i]))
    /\ UNCHANGED << marc_vars, unit_vars, lookup_vars, map_vars, merge_vars,
                    user_lines, user_batch_size, limit_async_requests,
                    remote_users, logs, errorfile, tasks, line_number, file_pc,
                    counted >>

\* handle_service_points_user: the request succeeds
ReconcileSPU(i) ==
    /\ task[i].pc = "spu"
    /\ MoveTo(i, task[i], "done")
    /\ UNCHANGED << marc_vars, unit_vars, lookup_vars, map_vars, merge_vars,
                    user_lines, user_batch_size, limit_async_requests,
                    remote_users, logs, errorfile, tasks, line_number, file_pc,
                    counted >>

\* handle_service_points_user: raise_for_status raises, nothing catches it
ReconcileSPURaises(i) ==
    /\ task[i].pc = "spu"
    /\ MoveTo(i, task[i], "raised")
    /\ UNCHANGED << marc_vars, unit_vars, lookup_vars, map_vars, merge_vars,
                    user_lines, user_batch_size, limit_async_requests,
                    remote_users, logs, errorfile, tasks, line_number, file_pc,
                    counted >>

UserNext ==
    \/ StartBatch \/ GatherDone \/ GatherRaises \/ FileDone \/ Shutdown
    \/ \E i \in DOMAIN user_lines :
        \/ AdmitRaises(i) \/ Admit(i)
        \/ LookupFound(i) \/ LookupNone(i) \/ LookupSub(i)
        \/ CreateOk(i) \/ CreateFails(i)
        \/ UpdateOk(i) \/ UpdateFails(i) \/ UpdateRaises(i)
        \/ ReconcileRP(i) \/ ReconcilePU(i)
        \/ ReconcileSPU(i) \/ ReconcileSPURaises(i)

\* ================================================ process_line, one unit
\* A line with the fields the workflow looks at: whether the document has an
\* "id", its match-key field, its patronGroup (absent, a group name, the id
\* of a group, or a value unknown to the map), and whether it carries
\* requestPreference / servicePointsUser.
Candidate(id, key, group, rp, spu) ==
    [decodable |-> TRUE, id |-> id, key |-> key, patronGroup |-> group,
     requestPreference |-> rp, servicePointsUser |-> spu]

UndecodableLine ==
    [decodable |-> FALSE, id |-> FALSE, key |-> "none", patronGroup |-> "absent",
     requestPreference |-> FALSE, servicePointsUser |-> FALSE]

Lines ==
    { UndecodableLine } \cup
    { Candidate(id, key, group, rp, spu) :
        id \in BOOLEAN, key \in {"none", "k1"},
        group \in {"absent", "name", "uuid", "unknown"},
        rp \in BOOLEAN, spu \in BOOLEAN }

\* answers of a GET and of a POST/PUT: "status" is an error status,
\* "transport" an httpx transport error
GetAnswers == {"found", "empty", "status", "transport"}

WriteAnswers == {"ok", "status", "transport"}

NoDoc == [patronGroup |-> "absent"]

UnitInit ==
    /\ line \in Lines
    /\ unit_pc = "start"
    /\ raised_at = "none"
    /\ user_obj = NoDoc
    /\ existing_user = FALSE
    /\ existing_rp = FALSE
    /\ existing_pu = FALSE
    /\ existing_spu = FALSE
    /\ new_user_obj = FALSE
    /\ requests = << >>
    /\ logfile = << >>

\* get_existing_user: match_key is "id" when the document has one
MatchKeyMissing(l) == ~l.id /\ l.key = "none"

\* a variant whose handler lets a transport error through
LookupRaisesOnTransport(answer) ==
    CASE answer = "found" -> "found"
      [] answer = "transport" -> "raise"
      [] OTHER -> "none"

\* the try/except httpx.HTTPError of the four get_existing_* functions
LookupYields(answer) == IF answer = "found" THEN "found" ELSE "none"

\* map_patron_groups on the abstract values
MappedGroup(group) ==
    CASE group = "name" -> "uuid"
      [] group = "uuid" -> "uuid"
      [] OTHER -> "absent"

\* a variant that always takes the create branch
NeverUpdates(existing) == FALSE

\* "if existing_user:" of create_or_update_user
UpdatePath(existing) == existing

\* a variant that always creates the preference
NeverUpdatesPreference(existing) == FALSE

\* "if existing_rp:" of create_or_update_rp
UpdatesPreference(existing) == existing

\* the document create_new_rp posts
create_new_rp(rp) == "default"

\* the document update_existing_rp puts: existing_rp.update(rp_obj)
update_existing_rp(rp) == IF rp THEN "existing+candidate" ELSE "existing"

Raise(at) ==
    /\ unit_pc' = "raised"
    /\ raised_at' = at

Sent(request, body, answer) ==
    requests' = Append(requests,
                       [request |-> request, body |-> body, answer |-> answer])

\* process_user_obj, and the query of get_existing_user is built
ProcessUserObj ==
    /\ unit_pc = "start"
    /\ IF ~line.decodable
          THEN Raise("process_user_obj") /\ user_obj' = user_obj
          ELSE IF MatchKeyMissing(line)
                  THEN Raise("user_obj[match_key]") /\ user_obj' = user_obj
                  ELSE /\ unit_pc' = "get_user"
                       /\ user_obj' = [patronGroup |-> line.patronGroup]
                       /\ raised_at' = raised_at
    /\ UNCHANGED << marc_vars, user_vars, lookup_vars, map_vars, merge_vars, line,
                    existing_user, existing_rp, existing_pu, existing_spu,
                    new_user_obj, requests, logfile >>

\* get_existing_user is answered; process_existing_user goes on to the
\* sub-resource lookups only "if existing_user:"
GetExistingUser ==
    /\ unit_pc = "get_user"
    /\ \E answer \in GetAnswers :
        /\ Sent("get_user", "query", answer)
        /\ IF LookupYields(answer) = "raise"
              THEN Raise("get_existing_user") /\ existing_user' = existing_user
              ELSE /\ existing_user' = (LookupYields(answer) = "found")
                   /\ unit_pc' = IF existing_user' THEN "get_rp" ELSE "map"
                   /\ raised_at' = raised_at
    /\ UNCHANGED << marc_vars, user_vars, lookup_vars, map_vars, merge_vars, line,
                    user_obj, existing_rp, existing_pu, existing_spu,
                    new_user_obj, logfile >>

GetExistingRP ==
    /\ unit_pc = "get_rp"
    /\ \E answer \in GetAnswers :
        /\ Sent("get_rp", "query", answer)
        /\ IF LookupYields(answer) = "raise"
              THEN Raise("get_existing_rp") /\ existing_rp' = existing_rp
              ELSE /\ existing_rp' = (LookupYields(answer) = "found")
                   /\ unit_pc' = "get_pu"
                   /\ raised_at' = raised_at
    /\ UNCHANGED << marc_vars, user_vars, lookup_vars, map_vars, merge_vars, line,
                    user_obj, existing_user, existing_pu, existing_spu,
                    new_user_obj, logfile >>

GetExistingPU ==
    /\ unit_pc = "get_pu"
    /\ \E answer \in GetAnswers :
        /\ Sent("get_pu", "query", answer)
        /\ IF LookupYields(answer) = "raise"
              THEN Raise("get_existing_pu") /\ existing_pu' = existing_pu
              ELSE /\ existing_pu' = (LookupYields(answer) = "found")
                   /\ unit_pc' = "get_spu"
                   /\ raised_at' = raised_at
    /\ UNCHANGED << marc_vars, user_vars, lookup_vars, map_vars, merge_vars, line,
                    user_obj, existing_user, existing_rp, existing_spu,
                    new_user_obj, logfile >>

GetExistingSPU ==
    /\ unit_pc = "get_spu"
    /\ \E answer \in GetAnswers :
        /\ Sent("get_spu", "query", answer)
        /\ IF LookupYields(answer) = "raise"
              THEN Raise("get_existing_spu") /\ existing_spu' = existing_spu
              ELSE /\ existing_spu' = (LookupYields(answer) = "found")
                   /\ unit_pc' = "map"
                   /\ raised_at' = raised_at
    /\ UNCHANGED << marc_vars, user_vars, lookup_vars, map_vars, merge_vars, line,
                    user_obj, existing_user, existing_rp, existing_pu,
                    new_user_obj, logfile >>

\* map_address_types, map_patron_groups, map_departments
MapReferences ==
    /\ unit_pc = "map"
    /\ IF MappingRaises(user_obj)
          THEN Raise("map_patron_groups") /\ user_obj' = user_obj
          ELSE /\ user_obj' = [patronGroup |-> MappedGroup(user_obj.patronGroup)]
               /\ unit_pc' = "write"
               /\ raised_at' = raised_at
    /\ UNCHANGED << marc_vars, user_vars, lookup_vars, map_vars, merge_vars, line,
                    existing_user, existing_rp, existing_pu, existing_spu,
                    new_user_obj, requests, logfile >>

\* a variant of the failure branch that writes nothing to the error file
WriteFailedUnlogged ==
    /\ errorfile' = errorfile
    /\ logs' = [logs EXCEPT !.failed = @ + 1]
    /\ new_user_obj' = FALSE
    /\ unit_pc' = "done"
    /\ raised_at' = raised_at

\* a failed write of create_or_update_user: the document goes to the error
\* file and the unit is counted failed
WriteFailed ==
    /\ errorfile' = Append(errorfile, 1)
    /\ logs' = [logs EXCEPT !.failed = @ + 1]
    /\ new_user_obj' = FALSE
    /\ unit_pc' = "done"
    /\ raised_at' = raised_at

\* create_new_user inside the try of create_or_update_user
CreateNewUser ==
    /\ unit_pc = "write"
    /\ ~UpdatePath(existing_user)
    /\ \E answer \in WriteAnswers :
        /\ Sent("create_user", "user_obj", answer)
        /\ IF answer = "ok"
              THEN /\ logs' = [logs EXCEPT !.created = @ + 1]
                   /\ new_user_obj' = TRUE
                   /\ unit_pc' = "rp"
                   /\ UNCHANGED << errorfile, raised_at >>
              ELSE WriteFailed
    /\ UNCHANGED << marc_vars, lookup_vars, map_vars, merge_vars, user_lines,
                    user_batch_size, limit_async_requests, remote_users,
                    limit_simultaneous_requests, tasks, line_number, file_pc,
                    task, counted, line, user_obj, existing_user, existing_rp,
                    existing_pu, existing_spu, logfile >>

\* update_existing_user, then raise_for_status inside the try of
\* create_or_update_user; the PUT itself is outside the try
UpdateExistingUser ==
    /\ unit_pc = "write"
    /\ UpdatePath(existing_user)
    /\ \E answer \in WriteAnswers :
        /\ Sent("update_user", "existing_user", answer)
        /\ CASE answer = "ok" ->
                   /\ logs' = [logs EXCEPT !.updated = @ + 1]
                   /\ new_user_obj' = TRUE
                   /\ unit_pc' = "rp"
                   /\ UNCHANGED << errorfile, raised_at >>
             [] answer = "status" -> WriteFailed
             [] OTHER ->
                   /\ Raise("update_existing_user")
                   /\ UNCHANGED << errorfile, logs, new_user_obj >>
    /\ UNCHANGED << marc_vars, lookup_vars, map_vars, merge_vars, user_lines,
                    user_batch_size, limit_async_requests, remote_users,
                    limit_simultaneous_requests, tasks, line_number, file_pc,
                    task, counted, line, user_obj, existing_user, existing_rp,
                    existing_pu, existing_spu, logfile >>

\* the request-preference step of process_line, inside try/except Exception
ReconcilePreference ==
    /\ unit_pc = "rp"
    /\ \E answer \in WriteAnswers :
        /\ IF (existing_rp \/ line.requestPreference)
                 /\ UpdatesPreference(existing_rp)
              THEN Sent("update_rp", update_existing_rp(line.requestPreference),
                        answer)
              ELSE Sent("create_rp", create_new_rp(line.requestPreference),
                        answer)
        /\ logfile' = IF answer = "ok" THEN logfile
                      ELSE Append(logfile, "request preference")
    /\ unit_pc' = AfterRP([existing_pu |-> existing_pu], line)
    /\ UNCHANGED << marc_vars, user_vars, lookup_vars, map_vars, merge_vars, line,
                    raised_at, user_obj, existing_user, existing_rp, existing_pu,
                    existing_spu, new_user_obj >>

\* create_perms_user, inside try/except Exception
CreatePermsUser ==
    /\ unit_pc = "pu"
    /\ \E answer \in WriteAnswers :
        /\ Sent("create_pu", "perms_user_obj", answer)
        /\ logfile' = IF answer = "ok" THEN logfile
                      ELSE Append(logfile, "permission user")
    /\ unit_pc' = AfterPU(line)
    /\ UNCHANGED << marc_vars, user_vars, lookup_vars, map_vars, merge_vars, line,
                    raised_at, user_obj, existing_user, existing_rp, existing_pu,
                    existing_spu, new_user_obj >>

\* handle_service_points_user with a spu_obj: nothing catches a failure
HandleServicePointsUser ==
    /\ unit_pc = "spu"
    /\ \E answer \in WriteAnswers :
        /\ Sent(IF existing_spu THEN "update_spu" ELSE "create_spu",
                "spu_obj", answer)
        /\ IF answer = "ok"
              THEN unit_pc' = "done" /\ raised_at' = raised_at
              ELSE Raise("handle_service_points_user")
    /\ UNCHANGED << marc_vars, user_vars, lookup_vars, map_vars, merge_vars, line,
                    user_obj, existing_user, existing_rp, existing_pu,
                    existing_spu, new_user_obj, logfile >>

UnitNext ==
    \/ ProcessUserObj
    \/ GetExistingUser \/ GetExistingRP \/ GetExistingPU \/ GetExistingSPU
    \/ MapReferences
    \/ CreateNewUser \/ UpdateExistingUser
    \/ ReconcilePreference \/ CreatePermsUser \/ HandleServicePointsUser

\* ------------------------- get_protected_fields and update_existing_user
\* A user document: "absent" stands for a key the dict does not have.
\* hasPersonal tells whether the key "personal" is there at all.
NoPersonal ==
    [email |-> "absent", preferredFirstName |-> "absent",
     addresses |-> "absent", preferredContactTypeId |-> "absent"]

PersonalFields == DOMAIN NoPersonal

NoUser == [barcode |-> "absent", hasPersonal |-> FALSE, personal |-> NoPersonal,
           protectedFields |-> {}]

PREFERRED_CONTACT_TYPES_MAP ==
    [id \in {"001", "002", "003", "004", "005"} |->
        CASE id = "001" -> "mail"
          [] id = "002" -> "email"
          [] id = "003" -> "text"
          [] id = "004" -> "phone"
          [] id = "005" -> "mobile"]

default_preferred_contact_type == "002"

\* the personal objects an existing user can carry
FetchedPersonals ==
    [email : {"absent", "e@old"},
     preferredFirstName : {"absent", "Old"},
     addresses : {"absent", "[old]"},
     preferredContactTypeId : {"absent", "001"}]

\* the personal objects a candidate can carry
CandidatePersonals ==
    [email : {"absent", "e@new"},
     preferredFirstName : {"absent", "", "New"},
     addresses : {"absent", "[]", "[new]"},
     preferredContactTypeId : {"absent", "email", "003", "xyz"}]

\* the --fields_to_protect lists of the runs
ConfiguredLists ==
    { {}, {"barcode"}, {"personal.email"}, {"personal.preferredContactTypeId"},
      {"barcode", "personal.addresses"} }

\* the customFields.protectedFields lists of the existing users
StoredLists == { {}, {"barcode"}, {"personal.preferredFirstName"} }

FetchedUsers ==
    { [barcode |-> b, hasPersonal |-> FALSE, personal |-> NoPersonal,
       protectedFields |-> l] : b \in {"absent", "B-old"}, l \in StoredLists }
    \cup
    { [barcode |-> b, hasPersonal |-> TRUE, personal |-> p,
       protectedFields |-> l] :
          b \in {"absent", "B-old"}, p \in FetchedPersonals, l \in StoredLists }

CandidateUsers ==
    { [barcode |-> b, hasPersonal |-> FALSE, personal |-> NoPersonal,
       protectedFields |-> {}] : b \in {"absent", "B-new"} }
    \cup
    { [barcode |-> b, hasPersonal |-> TRUE, personal |-> p,
       protectedFields |-> {}] : b \in {"absent", "B-new"}, p \in CandidatePersonals }

MergeInit ==
    /\ merge_pc = "fetched"
    /\ candidate \in CandidateUsers
    /\ fetched_user \in FetchedUsers
    /\ merging_user = fetched_user
    /\ protected_fields = NoUser
    /\ fields_to_protect \in ConfiguredLists
    /\ only_update_present_fields \in BOOLEAN
    /\ put_body = NoUser

\* "fld.subfld" of the personal object
Dotted(subfld) ==
    CASE subfld = "email" -> "personal.email"
      [] subfld = "preferredFirstName" -> "personal.preferredFirstName"
      [] subfld = "addresses" -> "personal.addresses"
      [] subfld = "preferredContactTypeId" -> "personal.preferredContactTypeId"

\* all_fields of get_protected_fields
AllFields(existing, cli_fields) == existing.protectedFields \cup cli_fields

\* the dict get_protected_fields returns: the values it popped
ProtectedOf(existing, all_fields) ==
    LET sub == [f \in PersonalFields |->
                  IF Dotted(f) \in all_fields THEN existing.personal[f]
                                              ELSE "absent"]
    IN [barcode |-> IF "barcode" \in all_fields THEN existing.barcode ELSE "absent",
        hasPersonal |-> \E f \in PersonalFields : sub[f] # "absent",
        personal |-> sub,
        protectedFields |-> {}]

\* existing_user after get_protected_fields popped the protected values
PoppedFrom(existing, all_fields) ==
    [existing EXCEPT
        !.barcode = IF "barcode" \in all_fields THEN "absent" ELSE @,
        !.personal = [f \in PersonalFields |->
                        IF Dotted(f) \in all_fields THEN "absent" ELSE @[f]]]

\* the id of a contact type given by name, "" when it is not a name
ContactTypeIdOf(name) ==
    IF \E id \in DOMAIN PREFERRED_CONTACT_TYPES_MAP :
           PREFERRED_CONTACT_TYPES_MAP[id] = name
    THEN CHOOSE id \in DOMAIN PREFERRED_CONTACT_TYPES_MAP :
             PREFERRED_CONTACT_TYPES_MAP[id] = name
    ELSE ""

\* set_preferred_contact_type reads existing_user["personal"] of a user
\* without that key
ContactTypeRaises(user, existing) ==
    /\ user.hasPersonal
    /\ user.personal.preferredContactTypeId # "absent"
    /\ ~existing.hasPersonal

\* the preferredContactTypeId set_preferred_contact_type stores
PreferredContactType(user, existing) ==
    IF user.hasPersonal /\ user.personal.preferredContactTypeId # "absent"
    THEN LET current == user.personal.preferredContactTypeId
         IN IF ContactTypeIdOf(current) # "" THEN ContactTypeIdOf(current)
            ELSE IF current \in DOMAIN PREFERRED_CONTACT_TYPES_MAP THEN current
            ELSE default_preferred_contact_type
    ELSE IF existing.personal.preferredContactTypeId \notin {"absent", ""}
         THEN existing.personal.preferredContactTypeId
         ELSE default_preferred_contact_type

\* dict.update of one key
Updated(old, new) == IF new # "absent" THEN new ELSE old

\* the branch "if self.only_update_present_fields:"; existing has lost its
\* preferredContactTypeId to the pop of the line before
MergePresent(user, existing) ==
    LET existing_personal ==
            [existing.personal EXCEPT !.preferredFirstName = "absent"]
        existing_preferred_first_name ==
            IF existing.personal.preferredFirstName = "absent" THEN ""
            ELSE existing.personal.preferredFirstName
        existing_addresses ==
            IF existing.personal.addresses = "absent" THEN "[]"
            ELSE existing.personal.addresses
        updated == [f \in PersonalFields |->
                      Updated(existing_personal[f], user.personal[f])]
        named == IF updated.preferredFirstName \in {"absent", ""}
                    /\ existing_preferred_first_name # ""
                 THEN [updated EXCEPT
                          !.preferredFirstName = existing_preferred_first_name]
                 ELSE updated
        addressed == IF named.addresses \in {"absent", "[]"}
                     THEN [named EXCEPT !.addresses = existing_addresses]
                     ELSE named
    IN [existing EXCEPT !.barcode = Updated(@, user.barcode),
                        !.hasPersonal = TRUE,
                        !.personal = addressed]

\* the else branch: existing_user.update(user_obj)
MergeAll(user, existing) ==
    [existing EXCEPT !.barcode = Updated(@, user.barcode),
                     !.hasPersonal = @ \/ user.hasPersonal,
                     !.personal = IF user.hasPersonal THEN user.personal ELSE @]

\* the loop over protected_fields.items()
Reapplied(existing, protected) ==
    [existing EXCEPT
        !.barcode = Updated(@, protected.barcode),
        !.hasPersonal = @ \/ protected.hasPersonal,
        !.personal = [f \in PersonalFields |-> Updated(@[f], protected.personal[f])]]

\* the document update_existing_user sends
MergedUser(user, existing, protected, only_present) ==
    LET contact == PreferredContactType(user, existing)
        popped == [existing EXCEPT !.hasPersonal = TRUE,
                                   !.personal.preferredContactTypeId = "absent"]
        merged == IF only_present THEN MergePresent(user, popped)
                                  ELSE MergeAll(user, popped)
        typed == [merged EXCEPT !.hasPersonal = TRUE,
                                !.personal.preferredContactTypeId = contact]
    IN Reapplied(typed, protected)

GetProtectedFields ==
    /\ merge_pc = "fetched"
    /\ LET all_fields == AllFields(merging_user, fields_to_protect)
       IN /\ protected_fields' = ProtectedOf(merging_user, all_fields)
          /\ merging_user' = PoppedFrom(merging_user, all_fields)
    /\ merge_pc' = "protected"
    /\ UNCHANGED << marc_vars, user_vars, unit_vars, lookup_vars, map_vars,
                    candidate, fetched_user, fields_to_protect,
                    only_update_present_fields, put_body >>

UpdateExistingUserDocument ==
    /\ merge_pc = "protected"
    /\ IF ContactTypeRaises(candidate, merging_user)
       THEN /\ merge_pc' = "raised"
            /\ merging_user' = merging_user
            /\ put_body' = put_body
       ELSE /\ merging_user' = MergedUser(candidate, merging_user, protected_fields,
                                          only_update_present_fields)
            /\ put_body' = merging_user'
            /\ merge_pc' = "sent"
    /\ UNCHANGED << marc_vars, user_vars, unit_vars, lookup_vars, map_vars,
                    candidate, fetched_user, protected_fields, fields_to_protect,
                    only_update_present_fields >>

MergeNext ==
    \/ GetProtectedFields
    \/ UpdateExistingUserDocument

\* ------------------------------------------------- reference resolution
\* the maps build_ref_data_id_map returns: name |-> id
patron_group_map == [name \in {"staff"} |-> "uuid-pg1"]

address_type_map == [name \in {"Home"} |-> "uuid-at1"]

department_map == [name \in {"History"} |-> "uuid-dp1"]

service_point_map == [name \in {"cd1"} |-> "uuid-sp1"]

\* map.values()
RangeOf(map) == { map[name] : name \in DOMAIN map }

\* the strings uuid.UUID accepts; the ids of the remote system are UUIDs
UuidStrings ==
    {"uuid-pg1", "uuid-at1", "uuid-dp1", "uuid-sp1", "uuid-other"}

validate_uuid(uuid_string) == uuid_string \in UuidStrings

\* a variant that takes no value for an id
NeverKnownId(value, map) == FALSE

\* "self.validate_uuid(x) and x in self.<vocabulary>_map.values()"
IsKnownId(value, map) == validate_uuid(value) /\ value \in RangeOf(map)

\* what a candidate can carry in each reference field
PatronGroupValues == {"absent", "staff", "uuid-pg1", "uuid-other", "bogus"}

AddressTypeValues == {"Home", "uuid-at1", "bogus"}

DepartmentValues == {"History", "uuid-dp1", "bogus"}

ServicePointValues == {"cd1", "uuid-sp1", "bogus"}

DefaultServicePointValues == {"absent", "cd1", "uuid-sp1", "uuid-other", "bogus"}

\* A candidate: an empty sequence stands for a list that is absent or empty
\* (pop(key, []) reads both alike); addressLine1 is the text of an address,
\* numbered by its place in the candidate.  NoMapUser is no document at all.
NoMapUser ==
    [username |-> "absent", patronGroup |-> "absent", hasPersonal |-> FALSE,
     lastName |-> "absent", addresses |-> << >>, departments |-> << >>]

NoSpu == [present |-> FALSE, servicePointsIds |-> << >>,
          defaultServicePointId |-> "absent"]

MapInit ==
    /\ map_pc = "map_address_types"
    /\ \E la, ld, ls \in 0 .. MaxRefs :
         /\ la + ld + ls <= MaxRefs
         /\ \E types \in [1 .. la -> AddressTypeValues],
               deps \in [1 .. ld -> DepartmentValues],
               sps \in [1 .. ls -> ServicePointValues],
               group \in PatronGroupValues,
               default \in DefaultServicePointValues,
               personal \in BOOLEAN :
              /\ la > 0 => personal
              /\ input_user =
                   [username |-> "a",
                    patronGroup |-> group,
                    hasPersonal |-> personal,
                    lastName |-> IF personal THEN "A" ELSE "absent",
                    addresses |-> [i \in 1 .. la |->
                                     [addressTypeId |-> types[i],
                                      addressLine1 |-> i]],
                    departments |-> [i \in 1 .. ld |-> deps[i]]]
              /\ input_spu =
                   [present |-> ls > 0 \/ default # "absent",
                    servicePointsIds |-> [i \in 1 .. ls |-> sps[i]],
                    defaultServicePointId |-> default]
    /\ mapping_user = input_user
    /\ mapping_spu = input_spu
    /\ user_request = NoMapUser
    /\ spu_request = NoSpu
    /\ again_user = NoMapUser
    /\ again_spu = NoSpu

RECURSIVE MappedValues(_, _)
\* the loops of map_departments and map_service_points: a known id is kept,
\* a name is replaced by its id, anything else raises KeyError and is left out
MappedValues(values, map) ==
    IF Len(values) = 0 THEN << >>
    ELSE LET value == Head(values)
             rest == MappedValues(Tail(values), map)
         IN IF IsKnownId(value, map) THEN << value >> \o rest
            ELSE IF value \in DOMAIN map THEN << map[value] >> \o rest
            ELSE rest

RECURSIVE MappedAddresses(_)
\* the loop of map_address_types
MappedAddresses(addresses) ==
    IF Len(addresses) = 0 THEN << >>
    ELSE LET address == Head(addresses)
             rest == MappedAddresses(Tail(addresses))
         IN IF IsKnownId(address.addressTypeId, address_type_map)
            THEN << address >> \o rest
            ELSE IF address.addressTypeId \in DOMAIN address_type_map
            THEN << [address EXCEPT
                       !.addressTypeId = address_type_map[@]] >> \o rest
            ELSE rest

map_address_types(user) ==
    IF user.hasPersonal
    THEN [user EXCEPT !.addresses = MappedAddresses(@)]
    ELSE user

\* a variant that leaves an unknown patron group in the document
PatronGroupKept(value) == value

\* user_obj["patronGroup"] after map_patron_groups; "absent" is the del
NewPatronGroup(value) ==
    IF IsKnownId(value, patron_group_map) THEN value
    ELSE IF value \in DOMAIN patron_group_map THEN patron_group_map[value]
    ELSE IF value \in RangeOf(patron_group_map) THEN value
    ELSE "absent"

\* user_obj["patronGroup"] of a document without the key
PatronGroupRaises(user) == user.patronGroup = "absent"

map_patron_groups(user) == [user EXCEPT !.patronGroup = NewPatronGroup(@)]

map_departments(user) ==
    [user EXCEPT !.departments = MappedValues(@, department_map)]

\* the default service point map_service_points leaves, given the assigned
\* service points it has just resolved
NewDefaultServicePoint(sp_code, assigned) ==
    LET mapped_sp_id ==
            IF IsKnownId(sp_code, service_point_map) THEN sp_code
            ELSE IF sp_code \in DOMAIN service_point_map
            THEN service_point_map[sp_code]
            ELSE "absent"
    IN IF mapped_sp_id # "absent"
          /\ \E i \in DOMAIN assigned : assigned[i] = mapped_sp_id
       THEN mapped_sp_id
       ELSE "absent"

map_service_points(spu) ==
    LET assigned == MappedValues(spu.servicePointsIds, service_point_map)
    IN [spu EXCEPT
           !.servicePointsIds = assigned,
           !.defaultServicePointId =
               IF @ = "absent" THEN "absent"
               ELSE NewDefaultServicePoint(@, assigned)]

MapAddressTypes ==
    /\ map_pc = "map_address_types"
    /\ mapping_user' = map_address_types(mapping_user)
    /\ map_pc' = "map_patron_groups"
    /\ UNCHANGED << marc_vars, user_vars, unit_vars, lookup_vars, merge_vars,
                    input_user, input_spu, mapping_spu, user_request, spu_request,
                    again_user, again_spu >>

MapPatronGroups ==
    /\ map_pc = "map_patron_groups"
    /\ IF PatronGroupRaises(mapping_user)
       THEN /\ map_pc' = "raised"
            /\ mapping_user' = mapping_user
       ELSE /\ mapping_user' = map_patron_groups(mapping_user)
            /\ map_pc' = "map_departments"
    /\ UNCHANGED << marc_vars, user_vars, unit_vars, lookup_vars, merge_vars,
                    input_user, input_spu, mapping_spu, user_request, spu_request,
                    again_user, again_spu >>

MapDepartments ==
    /\ map_pc = "map_departments"
    /\ mapping_user' = map_departments(mapping_user)
    /\ map_pc' = "create_or_update_user"
    /\ UNCHANGED << marc_vars, user_vars, unit_vars, lookup_vars, merge_vars,
                    input_user, input_spu, mapping_spu, user_request, spu_request,
                    again_user, again_spu >>

\* create_or_update_user sends the mapped document; a rejected request ends
\* the unit before its sub-resources
SendUser ==
    /\ map_pc = "create_or_update_user"
    /\ user_request' = mapping_user
    /\ \E answer \in {"ok", "status"} :
         map_pc' = IF answer = "ok" THEN "handle_service_points_user"
                   ELSE "failed"
    /\ UNCHANGED << marc_vars, user_vars, unit_vars, lookup_vars, merge_vars,
                    input_user, input_spu, mapping_user, mapping_spu, spu_request,
                    again_user, again_spu >>

\* handle_service_points_user: "if spu_obj:", map_service_points, the request
MapServicePoints ==
    /\ map_pc = "handle_service_points_user"
    /\ IF mapping_spu.present
       THEN /\ mapping_spu' = map_service_points(mapping_spu)
            /\ spu_request' = mapping_spu'
       ELSE /\ mapping_spu' = mapping_spu
            /\ spu_request' = spu_request
    /\ map_pc' = "done"
    /\ UNCHANGED << marc_vars, user_vars, unit_vars, lookup_vars, merge_vars,
                    input_user, input_spu, mapping_user, user_request, again_user,
                    again_spu >>

\* the four functions applied to their own results
ResolveAgain ==
    /\ map_pc = "done"
    /\ IF PatronGroupRaises(mapping_user)
       THEN /\ map_pc' = "raised"
            /\ again_user' = again_user
            /\ again_spu' = again_spu
       ELSE /\ again_user' =
                 map_departments(map_patron_groups(map_address_types(mapping_user)))
            /\ again_spu' = map_service_points(mapping_spu)
            /\ map_pc' = "resolved_again"
    /\ UNCHANGED << marc_vars, user_vars, unit_vars, lookup_vars, merge_vars,
                    input_user, input_spu, mapping_user, mapping_spu,
                    user_request, spu_request >>

MapNext ==
    \/ MapAddressTypes
    \/ MapPatronGroups
    \/ MapDepartments
    \/ SendUser
    \/ MapServicePoints
    \/ ResolveAgain

\* ------------------------------- read_total_records, then the readers
\* What MARCReader yields from a stream: chunks that end in a record
\* terminator ("ok" decodes, "bad" does not), and, when bytes follow the last
\* terminator, one more chunk ("tail") for which it yields None before it
\* stops.
StreamContents ==
    SeqsUpTo(RecordKinds, MaxRecs)
        \cup { Append(c, "tail") : c \in SeqsUpTo(RecordKinds, MaxRecs - 1) }

\* the 0x1d bytes of a chunk
TerminatorsIn(chunk) == IF chunk = "tail" THEN 0 ELSE Terminators(chunk)

OpenedFiles ==
    UNION { [1..k -> [chunks : StreamContents, offset : {0}]] : k \in 1..MaxFiles }

CountInit ==
    /\ count_pc = "count"
    /\ files \in OpenedFiles
    /\ terminators = 0
    /\ yielded = [records |-> 0, none |-> 0]
    /\ file_n = 1

\* chunk.count(b"\x1d") over what import_file.read returns from the offset on
RECURSIVE CountFrom(_, _)
CountFrom(f, k) ==
    IF k > Len(f.chunks) THEN 0
    ELSE TerminatorsIn(f.chunks[k]) + CountFrom(f, k + 1)

RECURSIVE CountFiles(_)
CountFiles(fs) ==
    IF fs = << >> THEN 0
    ELSE CountFrom(Head(fs), Head(fs).offset + 1) + CountFiles(Tail(fs))

\* a variant that leaves a stream where the counting read it to
LeftAtEnd(f) == [f EXCEPT !.offset = Len(f.chunks)]

\* import_file.seek(0) after the stream was read to its end
Rewound(f) == [f EXCEPT !.offset = 0]

ReadTotalRecords ==
    /\ count_pc = "count"
    /\ terminators' = CountFiles(files)
    /\ files' = [i \in DOMAIN files |-> Rewound(files[i])]
    /\ count_pc' = "decode"
    /\ UNCHANGED << marc_vars, user_vars, unit_vars, map_vars, merge_vars,
                    ref_vars, yielded, file_n >>

Reading == files[file_n]

\* the reader yields a record
YieldRecord ==
    /\ count_pc = "decode"
    /\ file_n <= Len(files)
    /\ Reading.offset < Len(Reading.chunks)
    /\ Reading.chunks[Reading.offset + 1] = "ok"
    /\ files' = [files EXCEPT ![file_n].offset = @ + 1]
    /\ yielded' = [yielded EXCEPT !.records = @ + 1]
    /\ count_pc' = count_pc
    /\ UNCHANGED << marc_vars, user_vars, unit_vars, map_vars, merge_vars,
                    ref_vars, terminators, file_n >>

\* the reader yields None: the else branch of process_records
YieldNone ==
    /\ count_pc = "decode"
    /\ file_n <= Len(files)
    /\ Reading.offset < Len(Reading.chunks)
    /\ Reading.chunks[Reading.offset + 1] # "ok"
    /\ files' = [files EXCEPT ![file_n].offset = @ + 1]
    /\ yielded' = [yielded EXCEPT !.none = @ + 1]
    /\ count_pc' = count_pc
    /\ UNCHANGED << marc_vars, user_vars, unit_vars, map_vars, merge_vars,
                    ref_vars, terminators, file_n >>

\* the reader is exhausted: the next import_file of the for loop
NextFile ==
    /\ count_pc = "decode"
    /\ file_n <= Len(files)
    /\ Reading.offset >= Len(Reading.chunks)
    /\ file_n' = file_n + 1
    /\ count_pc' = count_pc
    /\ UNCHANGED << marc_vars, user_vars, unit_vars, map_vars, merge_vars,
                    ref_vars, files, terminators, yielded >>

AllFilesRead ==
    /\ count_pc = "decode"
    /\ file_n > Len(files)
    /\ count_pc' = "done"
    /\ UNCHANGED << marc_vars, user_vars, unit_vars, map_vars, merge_vars,
                    ref_vars, files, terminators, yielded, file_n >>

CountNext ==
    \/ ReadTotalRecords
    \/ YieldRecord
    \/ YieldNone
    \/ NextFile
    \/ AllFilesRead

\* ------------------------------------- build_ref_data_id_map, __init__
\* the four calls of __init__
RefCalls ==
    { [endpoint |-> "/groups", key |-> "usergroups", name |-> "group"],
      [endpoint |-> "/addresstypes", key |-> "addressTypes", name |-> "addressType"],
      [endpoint |-> "/departments", key |-> "departments", name |-> "name"],
      [endpoint |-> "/service-points", key |-> "servicepoints", name |-> "code"] }

RefNames == {"staff", "Home", "cd1"}

RefIds == {"uuid-pg1", "uuid-at1"}

\* a reference item: its id and its name under the name field of the call
RefItem(name, n, id) == (name :> n) @@ ("id" :> id)

\* What an endpoint returns: up to MaxRefs items; the remote system keeps the
\* name unique within a vocabulary.
RefItemLists(name) ==
    { l \in UNION { [1..k -> { RefItem(name, n, id) : n \in RefNames, id \in RefIds }] :
                      k \in 0..MaxRefs } :
        \A i, j \in DOMAIN l : i # j => l[i][name] # l[j][name] }

NoMap == [n \in {} |-> ""]

RefInit ==
    /\ ref_pc = "construct"
    /\ ref_call \in RefCalls
    /\ ref_items \in RefItemLists(ref_call.name)
    /\ ref_map = NoMap
    /\ ref_resolved = "none"

\* a variant that maps each id to the name
IdToName(items, name) ==
    [id \in { items[k]["id"] : k \in DOMAIN items } |->
        items[CHOOSE k \in DOMAIN items : items[k]["id"] = id][name]]

\* {x[name]: x["id"] for x in items}: a later item replaces an earlier one
\* of the same name
build_ref_data_id_map(items, name) ==
    [n \in { items[k][name] : k \in DOMAIN items } |->
        LET last == CHOOSE k \in DOMAIN items :
                        /\ items[k][name] = n
                        /\ \A j \in DOMAIN items : items[j][name] = n => j <= k
        IN items[last]["id"]]

\* __init__ stores the map
Construct ==
    /\ ref_pc = "construct"
    /\ ref_map' = build_ref_data_id_map(ref_items, ref_call.name)
    /\ ref_pc' = "run"
    /\ ref_resolved' = ref_resolved
    /\ UNCHANGED << marc_vars, user_vars, unit_vars, map_vars, merge_vars,
                    count_vars, ref_call, ref_items >>

\* a map_* function of a run reads the map: an id of the map is kept, a name
\* is replaced by its id, anything else is a KeyError
ResolveReference ==
    /\ ref_pc = "run"
    /\ \E value \in RefNames \cup RefIds \cup {"bogus"} :
         ref_resolved' = IF IsKnownId(value, ref_map) THEN value
                         ELSE IF value \in DOMAIN ref_map THEN ref_map[value]
                         ELSE "KeyError"
    /\ ref_pc' = ref_pc
    /\ UNCHANGED << marc_vars, user_vars, unit_vars, map_vars, merge_vars,
                    count_vars, ref_call, ref_items, ref_map >>

RefNext ==
    \/ Construct
    \/ ResolveReference

\* ------------------------------------------------------- specifications
\* the user import is not running
UserIdle ==
    /\ user_lines = << >>
    /\ user_batch_size = 1
    /\ limit_async_requests = 1
    /\ remote_users = {}
    /\ limit_simultaneous_requests = 1
    /\ logs = [created |-> 0, updated |-> 0, failed |-> 0]
    /\ errorfile = << >>
    /\ tasks = << >>
    /\ line_number = 1
    /\ file_pc = "idle"
    /\ task = << >>
    /\ counted = << >>

\* the MARC import is not running
MarcIdle ==
    /\ import_files = << >>
    /\ batch_size = 1
    /\ consolidate_files = FALSE
    /\ let_summary_fail = FALSE
    /\ profile_in_catalog = FALSE
    /\ import_complete_exists = FALSE
    /\ current_file = << >>
    /\ job_id = 0
    /\ record_batch = << >>
    /\ error_records = 0
    /\ last_current = 0
    /\ total_records_sent = 0
    /\ finished = FALSE
    /\ current_retry_timeout = 0
    /\ pbar_sent = [n |-> 0, total |-> 0]
    /\ pbar_imported = 0
    /\ bad_records_file = << >>
    /\ failed_batches_file = << >>
    /\ bad_file_exists = FALSE
    /\ failed_file_exists = FALSE
    /\ file_i = 1
    /\ total_records = 0
    /\ counter = 0
    /\ fidx = 1
    /\ ridx = 1
    /\ batch_payload = NoPayload
    /\ post_attempts = 0
    /\ pc = "idle"
    /\ post_ret = "none"
    /\ poll_ret = "none"
    /\ job_requests = 0
    /\ jobs = << >>
    /\ posts = << >>
    /\ post_status = 0
    /\ summary_requests = 0
    /\ raised = NotRaised

\* no single unit is being followed
MergeIdle ==
    /\ merge_pc = "idle"
    /\ candidate = "idle"
    /\ fetched_user = "idle"
    /\ merging_user = "idle"
    /\ protected_fields = "idle"
    /\ fields_to_protect = "idle"
    /\ only_update_present_fields = "idle"
    /\ put_body = "idle"

MapIdle ==
    /\ map_pc = "idle"
    /\ input_user = "idle"
    /\ input_spu = "idle"
    /\ mapping_user = "idle"
    /\ mapping_spu = "idle"
    /\ user_request = "idle"
    /\ spu_request = "idle"
    /\ again_user = "idle"
    /\ again_spu = "idle"

\* no files are being counted
CountIdle ==
    /\ count_pc = "idle"
    /\ files = "idle"
    /\ terminators = "idle"
    /\ yielded = "idle"
    /\ file_n = "idle"

\* no reference map is being followed
RefIdle ==
    /\ ref_pc = "idle"
    /\ ref_call = "idle"
    /\ ref_items = "idle"
    /\ ref_map = "idle"
    /\ ref_resolved = "idle"

UnitIdle ==
    /\ line = UndecodableLine
    /\ unit_pc = "idle"
    /\ raised_at = "none"
    /\ user_obj = NoDoc
    /\ existing_user = FALSE
    /\ existing_rp = FALSE
    /\ existing_pu = FALSE
    /\ existing_spu = FALSE
    /\ new_user_obj = FALSE
    /\ requests = << >>
    /\ logfile = << >>

\* a run of MARCImportJob.do_work
Init == MarcInit /\ UserIdle /\ UnitIdle /\ MergeIdle /\ MapIdle
        /\ CountIdle /\ RefIdle

Next == MarcNext

Spec == Init /\ [][Next]_vars

\* do_work under the conditions of a terminating poll: the program takes its
\* next step whenever it has one (a sequential coroutine whose sleeps are
\* finite), and the remote side sooner or later takes the job out of the
\* active listing and shows it in the terminal listing
PollingFairness ==
    /\ WF_vars(Next)
    /\ SF_vars(PollActiveAbsent)
    /\ SF_vars(PollTerminalFound)

\* the runs checked for termination: at most LiveFiles files, LiveRecs records
LiveFiles == 1

LiveRecs == 2

LiveInit ==
    /\ Init
    /\ Len(import_files) <= LiveFiles
    /\ TotalLen(import_files) <= LiveRecs

LiveSpec == LiveInit /\ [][Next]_vars /\ PollingFairness

\* a run of UserImporter.process_file
UserSpecInit == UserInit /\ MarcIdle /\ UnitIdle /\ MergeIdle /\ MapIdle
                /\ CountIdle /\ RefIdle

UserSpecNext == UserNext

UserSpec == UserSpecInit /\ [][UserSpecNext]_vars

\* one call of process_line
UnitSpecInit == UnitInit /\ UserIdle /\ MarcIdle /\ MergeIdle /\ MapIdle
                /\ CountIdle /\ RefIdle

UnitSpecNext == UnitNext

UnitSpec == UnitSpecInit /\ [][UnitSpecNext]_vars

\* one call of get_protected_fields followed by update_existing_user
MergeSpecInit == MergeInit /\ MarcIdle /\ UserIdle /\ UnitIdle /\ MapIdle
                 /\ CountIdle /\ RefIdle

MergeSpecNext == MergeNext

MergeSpec == MergeSpecInit /\ [][MergeSpecNext]_vars

\* the reference resolution of one candidate, and of its result
MapSpecInit == MapInit /\ MarcIdle /\ UserIdle /\ UnitIdle /\ MergeIdle
               /\ CountIdle /\ RefIdle

MapSpecNext == MapNext

MapSpec == MapSpecInit /\ [][MapSpecNext]_vars

\* read_total_records over the opened files, then the readers over them
CountSpecInit == CountInit /\ MarcIdle /\ UserIdle /\ UnitIdle /\ MergeIdle
                 /\ MapIdle /\ RefIdle

CountSpecNext == CountNext

CountSpec == CountSpecInit /\ [][CountSpecNext]_vars

\* one reference map: its construction, then the lookups of a run
RefSpecInit == RefInit /\ MarcIdle /\ UserIdle /\ UnitIdle /\ MergeIdle
               /\ MapIdle /\ CountIdle

RefSpecNext == RefNext

RefSpec == RefSpecInit /\ [][RefSpecNext]_vars

\* ============================================================ properties
\* units inside the body of process_line's "async with"
InFlight == { i \in DOMAIN task : task[i].pc \in InWorkflow }

\* the files of the job hold decodable records only
AllValid(fs) ==
    \A f \in DOMAIN fs : \A r \in DOMAIN import_files[fs[f]] :
        import_files[fs[f]][r] = "ok"

CeilDiv(n, b) == (n + b - 1) \div b

\* process_records has returned for the current job
Streamed == job_id > 0 /\ jobs[job_id].streamed

\* records of the current job written to the failed-batch archive
FailedOfJob ==
    Cardinality({ k \in DOMAIN failed_batches_file :
                    \E f \in DOMAIN current_file :
                        current_file[f] = failed_batches_file[k][1] })

\* C1: once process_file has run (returned, or raised and the run ended),
\* created + updated + failed equals the number of units, and every unit has
\* incremented exactly one counter exactly once.
C1_AccountingClosure ==
    file_pc \in {"done", "exited"} =>
        /\ logs.created + logs.updated + logs.failed = Len(user_lines)
        /\ \A i \in DOMAIN user_lines : Len(counted[i]) = 1

\* C2: no batch is submitted to a job after one that carries last = true, and
\* once the records of a job with at least one decodable record have been
\* streamed, the last batch submitted carries last = true.
C2_ExactlyOneLastBatch ==
    /\ \A k \in 1..(Len(posts) - 1) : ~posts[k].last
    /\ (Streamed /\ counter > 0) =>
           (posts # << >> /\ posts[Len(posts)].last)

\* C3: a job over files holding N valid records submits ceil(N/B) batches,
\* all but the last of exactly B records, and only the last is marked final.
C3_BatchCountAndSizes ==
    (Streamed /\ AllValid(jobs[job_id].files)) =>
        /\ Len(posts) = CeilDiv(counter, batch_size)
        /\ \A k \in 1..(Len(posts) - 1) :
               Len(posts[k].initialRecords) = batch_size /\ ~posts[k].last
        /\ posts # << >> => posts[Len(posts)].last

\* C4: the counter of a batch payload equals the records of this job decoded
\* so far minus the records of this job archived as submission failures.
C4_MetadataCounter ==
    pc = "post" => batch_payload.counter = counter - FailedOfJob

\* C5: handling a submission that failed with a status other than 422 or 500
\* writes each record of the batch once to the failed-batch archive, adds the
\* batch size to the error tally, takes it off the progress total, leaves
\* total_records_sent alone, and the run goes on.
C5_FailedBatchAccounting ==
    [][(pc = "posted" /\ post_status \notin {201, 422, 500}) =>
          /\ failed_batches_file' = failed_batches_file \o record_batch
          /\ error_records' = error_records + Len(record_batch)
          /\ pbar_sent'.total = pbar_sent.total - Len(record_batch)
          /\ total_records_sent' = total_records_sent
          /\ pc' \in {"poll", "rename"}]_vars

\* C6: handling a submission answered 422 or 500 advances total_records_sent
\* and the sent progress by the batch size, writes nothing to the failed-batch
\* archive, leaves the error tally alone, and does not submit the batch again;
\* no record of a newly submitted batch was submitted to the job before.
C6_RecoverableCountedAsSent ==
    [][/\ (pc = "posted" /\ post_status \in {422, 500}) =>
             /\ total_records_sent' = total_records_sent + Len(record_batch)
             /\ pbar_sent'.n = pbar_sent.n + Len(record_batch)
             /\ pbar_sent'.total = pbar_sent.total
             /\ failed_batches_file' = failed_batches_file
             /\ error_records' = error_records
             /\ record_batch' = << >>
             /\ posts' = posts
             /\ pc' \in {"poll", "rename"}
       /\ Len(posts') = Len(posts) + 1 =>
             \A k \in DOMAIN posts :
                 \A a \in DOMAIN posts[k].initialRecords,
                    b \in DOMAIN posts'[Len(posts')].initialRecords :
                        posts[k].initialRecords[a] #
                            posts'[Len(posts')].initialRecords[b]]_vars

\* a submission has been answered 422 or 500 and is about to be handled
C6_Witness ==
    /\ pc = "posted"
    /\ post_status \in {422, 500}
    /\ Len(record_batch) > 1

C8_NoJobWithoutProfile ==
    ~profile_in_catalog => job_requests = 0

\* C9: every job but the newest has been seen in the terminal listing and had
\* its summary fetch return, and every record submitted, batched or about to
\* be submitted since the newest job exists belongs to that job's files.
C9_JobsNeverOverlap ==
    /\ \A j \in 1..(Len(jobs) - 1) :
           jobs[j].streamed /\ jobs[j].terminal_seen /\ jobs[j].summary_returned
    /\ \A k \in DOMAIN posts : \A a \in DOMAIN posts[k].initialRecords :
           \E f \in DOMAIN jobs[job_id].files :
               jobs[job_id].files[f] = posts[k].initialRecords[a][1]
    /\ pc \in {"records", "post", "posted"} =>
           \A a \in DOMAIN record_batch :
               \E f \in DOMAIN jobs[job_id].files :
                   jobs[job_id].files[f] = record_batch[a][1]

\* the second of two one-file jobs has had a batch submitted
C9_Witness ==
    /\ ~consolidate_files
    /\ Len(jobs) = 2
    /\ posts # << >>

\* C10: the units inside the body of process_line never number more than the
\* width the semaphore was created with.
C10_InFlightBounded ==
    Cardinality(InFlight) <= limit_async_requests

\* the gate is full and holds another unit back
C10_Witness ==
    /\ Cardinality(InFlight) = limit_async_requests
    /\ \E i \in DOMAIN task : task[i].pc = "waiting"
    /\ limit_async_requests < Len(tasks)

\* C11: once process_file has run (returned, or raised and the run ended),
\* every unit of the input has reached its own end: no line is left unread,
\* waiting at the semaphore, cut off inside its workflow or cancelled because
\* another unit failed.
C11_UnitIsolation ==
    file_pc \in {"done", "exited"} =>
        \A i \in DOMAIN user_lines : task[i].pc \in {"done", "raised"}

\* ------------------------------------------ properties of one process_line
\* positions in requests of the requests with one of the given names
RequestsOf(names) == { k \in DOMAIN requests : requests[k].request \in names }

UserWrites == {"create_user", "update_user"}

SubWrites == {"create_rp", "update_rp", "create_pu", "create_spu", "update_spu"}

\* the main entity write was sent before position k and answered with success
WrittenBefore(k) ==
    \E j \in RequestsOf(UserWrites) : j < k /\ requests[j].answer = "ok"

\* the unit has left the permission-user step behind
PastPU ==
    \/ unit_pc \in {"spu", "done"} /\ new_user_obj
    \/ unit_pc = "raised" /\ raised_at = "handle_service_points_user"

\* C12: when a sub-resource request made after the successful main write
\* fails, the failure is written to the log file, the unit stays counted
\* created or updated, and no exception leaves process_line.
C12_SubResourceFailureIsolated ==
    \A k \in RequestsOf(SubWrites) :
        requests[k].answer # "ok" =>
            /\ unit_pc # "raised"
            /\ logs.created + logs.updated = 1 /\ logs.failed = 0
            /\ Len(logfile) =
                 Cardinality({ j \in RequestsOf(SubWrites) :
                                 requests[j].answer # "ok" })

\* C13: a unit sends at most one main entity write, a create exactly when
\* its lookup found nothing and an update exactly when it found the user;
\* a unit whose create succeeded is counted created, sends no update of a
\* sub-resource, and by its end has created the preference, the permission
\* user and (if the candidate has one) the service-points user.
C13_CreateOrUpdate ==
    /\ Cardinality(RequestsOf(UserWrites)) <= 1
    /\ Cardinality(RequestsOf({"get_user"})) <= 1
    /\ \A k \in RequestsOf({"create_user"}) :
           \E j \in RequestsOf({"get_user"}) :
               j < k /\ requests[j].answer # "found"
    /\ \A k \in RequestsOf({"update_user"}) :
           \E j \in RequestsOf({"get_user"}) :
               j < k /\ requests[j].answer = "found"
    /\ unit_pc \in {"rp", "pu", "spu", "done"} =>
           Cardinality(RequestsOf(UserWrites)) = 1
    /\ \A k \in RequestsOf({"create_user"}) :
           requests[k].answer = "ok" =>
               /\ logs = [created |-> 1, updated |-> 0, failed |-> 0]
               /\ RequestsOf({"update_rp", "update_spu"}) = {}
               /\ unit_pc = "done" =>
                      /\ RequestsOf({"create_rp"}) # {}
                      /\ RequestsOf({"create_pu"}) # {}
                      /\ line.servicePointsUser =>
                             RequestsOf({"create_spu"}) # {}

\* a candidate without id, not found remotely, was created with all three
\* sub-resources
C13_Witness ==
    /\ unit_pc = "done"
    /\ ~line.id
    /\ line.servicePointsUser
    /\ logs.created = 1
    /\ requests[1].answer = "empty"
    /\ RequestsOf({"create_rp"}) # {}
    /\ RequestsOf({"create_pu"}) # {}
    /\ RequestsOf({"create_spu"}) # {}

\* C14: no exception leaves process_line from a lookup; a user lookup that
\* failed or found nothing is followed by the create request, never by an
\* update or a sub-resource lookup; each sub-resource lookup sets its own
\* local to "found" exactly when its own answer was, and the next lookup
\* is sent whatever the previous one answered.
C14_LookupFailureIsNone ==
    /\ unit_pc = "raised" =>
           raised_at \notin {"get_existing_user", "get_existing_rp",
                             "get_existing_pu", "get_existing_spu"}
    /\ \A k \in RequestsOf({"get_user"}) :
           requests[k].answer # "found" =>
               /\ unit_pc # "get_user" => ~existing_user
               /\ k < Len(requests) => requests[k + 1].request = "create_user"
               /\ unit_pc \in {"map", "write", "rp", "pu", "spu", "done", "raised"}
    /\ \A k \in RequestsOf({"get_rp"}) :
           /\ existing_rp = (requests[k].answer = "found")
           /\ k < Len(requests) => requests[k + 1].request = "get_pu"
    /\ \A k \in RequestsOf({"get_pu"}) :
           /\ existing_pu = (requests[k].answer = "found")
           /\ k < Len(requests) => requests[k + 1].request = "get_spu"
    /\ \A k \in RequestsOf({"get_spu"}) :
           /\ existing_spu = (requests[k].answer = "found")
           /\ unit_pc \notin {"get_rp", "get_pu", "get_spu"}
    /\ unit_pc \in {"write", "rp", "pu", "spu", "done"} /\ existing_user =>
           Cardinality(RequestsOf({"get_rp", "get_pu", "get_spu"})) = 3

\* the user lookup ended in a transport error and the unit was created
C14_Witness ==
    /\ unit_pc = "done"
    /\ requests[1].request = "get_user"
    /\ requests[1].answer = "transport"
    /\ logs.created = 1

\* C19: a unit sends at most one preference request, and only after a
\* successful main write; it is an update exactly when an existing preference
\* was found and a create otherwise; the preference created when there is
\* neither an existing nor a candidate one is the default.
C19_PreferenceReconciled ==
    /\ Cardinality(RequestsOf({"create_rp", "update_rp"})) <= 1
    /\ \A k \in RequestsOf({"create_rp", "update_rp"}) : WrittenBefore(k)
    /\ \A k \in RequestsOf({"update_rp"}) : existing_rp
    /\ \A k \in RequestsOf({"create_rp"}) :
           /\ ~existing_rp
           /\ ~line.requestPreference => requests[k].body = "default"
    /\ (unit_pc \in {"pu", "spu", "done"} /\ new_user_obj) =>
           Cardinality(RequestsOf({"create_rp", "update_rp"})) = 1

\* an existing preference was updated and the unit has ended
C19_Witness ==
    /\ unit_pc = "done"
    /\ existing_rp
    /\ RequestsOf({"update_rp"}) # {}
    /\ RequestsOf({"create_rp"}) = {}

\* C20: no request updates a permission user; a unit creates one at most
\* once, only after a successful main write and only when none was found,
\* and once past that step it has created one exactly when none was found.
C20_PermsCreateIfAbsent ==
    /\ \A k \in DOMAIN requests : requests[k].request # "update_pu"
    /\ Cardinality(RequestsOf({"create_pu"})) <= 1
    /\ \A k \in RequestsOf({"create_pu"}) : ~existing_pu /\ WrittenBefore(k)
    /\ PastPU => (RequestsOf({"create_pu"}) # {} <=> ~existing_pu)

\* an existing user with a permission user was updated and none was created
C20_Witness ==
    /\ unit_pc = "done"
    /\ existing_user
    /\ existing_pu
    /\ logs.updated = 1
    /\ RequestsOf({"create_pu"}) = {}

\* ------------------------------- properties of the merge of an existing user
MergeFields == {"barcode"} \cup { Dotted(f) : f \in PersonalFields }

\* the value a document has for a top-level or dotted field
ValueOf(doc, field) ==
    IF field = "barcode" THEN doc.barcode
    ELSE LET f == CHOOSE g \in PersonalFields : Dotted(g) = field
         IN doc.personal[f]

\* a contact type given by a valid name counts as carried by its id
CarriedValue(doc, field) ==
    IF field = "personal.preferredContactTypeId"
       /\ ContactTypeIdOf(ValueOf(doc, field)) # ""
    THEN ContactTypeIdOf(ValueOf(doc, field))
    ELSE ValueOf(doc, field)

\* C15: the document of the update request has, for every field of the
\* configured protect list and of the existing user's stored list, what the
\* existing user had for it before the merge, under both merge policies.
C15_ProtectedFieldsKept ==
    merge_pc = "sent" =>
        \A field \in AllFields(fetched_user, fields_to_protect) :
            ValueOf(put_body, field) = ValueOf(fetched_user, field)

\* C16: with only_update_present_fields and nothing protected, every field
\* of the document sent has the candidate's value when the candidate
\* carries the field and the existing user's value when it does not.
C16_OnlyPresentFieldsUpdated ==
    (/\ merge_pc = "sent"
     /\ only_update_present_fields
     /\ AllFields(fetched_user, fields_to_protect) = {}) =>
        \A field \in MergeFields :
            ValueOf(put_body, field) =
                IF ValueOf(candidate, field) # "absent"
                THEN CarriedValue(candidate, field)
                ELSE ValueOf(fetched_user, field)

\* ------------------------------------- properties of reference resolution
\* the map_* functions of the user document have all run
UserMapped ==
    map_pc \in {"create_or_update_user", "handle_service_points_user",
                "failed", "done", "resolved_again"}
    \/ (map_pc = "raised" /\ user_request # NoMapUser)

\* map_service_points has run
SpuMapped == spu_request # NoSpu

\* every entry of the list is an id of the vocabulary
AllIds(values, map) == \A i \in DOMAIN values : values[i] \in RangeOf(map)

\* the value is an id or a name of the vocabulary
Known(value, map) == value \in DOMAIN map \cup RangeOf(map)

\* the id a known value stands for
IdOf(value, map) == IF value \in DOMAIN map THEN map[value] ELSE value

\* the known entries of a list, in their order, as ids
KnownIds(values, map) ==
    LET known == SelectSeq(values, LAMBDA value : Known(value, map))
    IN [i \in 1 .. Len(known) |-> IdOf(known[i], map)]

\* the addresses with a known type, in their order, the type as its id
KnownAddresses(addresses) ==
    LET known == SelectSeq(addresses,
                     LAMBDA a : Known(a.addressTypeId, address_type_map))
    IN [i \in 1 .. Len(known) |->
          [known[i] EXCEPT !.addressTypeId = IdOf(@, address_type_map)]]

\* the text of the addresses of a document
AddressLines(user) ==
    [i \in 1 .. Len(user.addresses) |-> user.addresses[i].addressLine1]

C21_FailedUnitLogged ==
    /\ logs.failed <= 1
    /\ Len(errorfile) = logs.failed
    /\ logs.failed = 1 =>
         /\ RequestsOf(SubWrites) = {}
         /\ unit_pc = "done"
         /\ ~new_user_obj
         /\ logs.created + logs.updated = 0
         /\ \E k \in RequestsOf(UserWrites) : requests[k].answer # "ok"
    /\ logs.created + logs.updated >= 1 => errorfile = << >>

\* an update answered with an error status ended the unit as failed
C21_Witness ==
    /\ unit_pc = "done"
    /\ existing_user
    /\ logs.failed = 1
    /\ Len(errorfile) = 1
    /\ requests[Len(requests)].request = "update_user"

\* ------------------------------------------------- decode failures, archives
\* C22: every chunk in the bad-record archive is one that did not decode,
\* no submitted batch holds such a chunk, and as long as no batch has failed
\* the error tally is the number of chunks that did not decode.
C22_DecodeFailureIsolated ==
    /\ \A k \in DOMAIN bad_records_file :
           import_files[bad_records_file[k][1]][bad_records_file[k][2]] = "bad"
    /\ \A p \in DOMAIN posts : \A r \in DOMAIN posts[p].initialRecords :
           import_files[posts[p].initialRecords[r][1]]
                       [posts[p].initialRecords[r][2]] = "ok"
    /\ failed_batches_file = << >> => error_records = Len(bad_records_file)

\* ------------------------------------------------- the count of the records
RECURSIVE ChunksOf(_)
ChunksOf(fs) ==
    IF fs = << >> THEN 0 ELSE Len(Head(fs).chunks) + ChunksOf(Tail(fs))

\* the streams that hold bytes after their last record terminator
WithTail == { i \in DOMAIN files : files[i].chunks # << >>
                /\ files[i].chunks[Len(files[i].chunks)] = "tail" }

NotYetRead == { i \in DOMAIN files : i > file_n }

\* read_total_records has left every stream at offset zero, and the readers
\* go through every chunk of every stream
EveryChunkRead ==
    /\ count_pc = "decode" => \A i \in NotYetRead : files[i].offset = 0
    /\ count_pc = "done" => yielded.records + yielded.none = ChunksOf(files)

C25_SummaryFailure ==
    [][pc = "summary" =>
        /\ pc' \in {"summary", "do_work", "aborted"}
        /\ pc' = "aborted" =>
             /\ raised'.exc = "HTTPStatusError"
             /\ raised'.status \notin {502, 504}
        /\ pc' = "do_work" =>
             /\ raised' = NotRaised
             /\ jobs'[job_id].summary_returned
             /\ current_retry_timeout' # 0 => let_summary_fail
        /\ pc' = "summary" => ~jobs'[job_id].summary_returned]_vars

C25_Witness ==
    /\ pc = "done"
    /\ let_summary_fail
    /\ current_retry_timeout # 0
    /\ Len(jobs) = 2
    /\ \A j \in DOMAIN jobs : jobs[j].summary_returned

\* C26: with let_summary_fail set, at most one summary request is issued for
\* a job.
C26_SummaryRequestedOnce == let_summary_fail => summary_requests <= 1

\* C27: when do_work has reached its end, an archive file to which nothing
\* was written has been removed.
C27_EmptyArchivesRemoved ==
    pc = "done" =>
        /\ bad_records_file = << >> => ~bad_file_exists
        /\ failed_batches_file = << >> => ~failed_file_exists

C27_Witness ==
    /\ pc = "done"
    /\ bad_records_file = << >>
    /\ failed_batches_file # << >>
    /\ ~bad_file_exists
    /\ failed_file_exists

\* C30: a status poll that finds the job in neither listing ends with
\* IndexError and leaves finished and last_current as they were.
C30_JobInNeitherListing ==
    [][pc = "poll_terminal" /\ pc' = "aborted" /\ raised'.exc # "HTTPStatusError" =>
        /\ raised' = [exc |-> "IndexError", at |-> "poll_terminal", status |-> 0]
        /\ finished' = finished
        /\ last_current' = last_current]_vars

C30_Witness ==
    /\ raised.exc = "IndexError"
    /\ raised.at = "poll_terminal"
    /\ last_current > 0
    /\ ~finished

\* ------------------------------------------------ the preferred contact type
ValidContactTypeIds == DOMAIN PREFERRED_CONTACT_TYPES_MAP

\* the contact type the docstring of set_preferred_contact_type promises
PromisedContactType ==
    LET given == candidate.personal.preferredContactTypeId
        had == fetched_user.personal.preferredContactTypeId
    IN IF ContactTypeIdOf(given) # "" THEN ContactTypeIdOf(given)
       ELSE IF given \in ValidContactTypeIds THEN given
       ELSE IF had \in ValidContactTypeIds THEN had
       ELSE default_preferred_contact_type

\* C28: the update request of a user whose preferred contact type is not
\* protected carries the candidate's contact type as an id when the candidate
\* gives a valid id or name, otherwise the existing user's contact type when
\* that is valid, and the configured default only otherwise.
C28_PreferredContactTypeSet ==
    (/\ merge_pc = "sent"
     /\ "personal.preferredContactTypeId"
            \notin AllFields(fetched_user, fields_to_protect)) =>
        put_body.personal.preferredContactTypeId = PromisedContactType

\* ------------------------------------------------------ the reference maps
RefNamesOf(items) == { items[k][ref_call.name] : k \in DOMAIN items }

\* C29: the map stored at construction has the name of every item returned
\* by the endpoint as a key, sends it to the id of that item and has no other
\* key; no lookup of a run changes the map.
C29_RefMapBuiltOnce ==
    /\ [](ref_pc = "run" =>
            /\ DOMAIN ref_map = RefNamesOf(ref_items)
            /\ \A k \in DOMAIN ref_items :
                   ref_map[ref_items[k][ref_call.name]] = ref_items[k]["id"])
    /\ [][ref_pc = "run" => ref_map' = ref_map /\ ref_items' = ref_items]_vars

C29_Witness ==
    /\ ref_pc = "run"
    /\ Len(ref_items) = 2
    /\ ref_items[1]["id"] # ref_items[2]["id"]
    /\ ref_resolved = ref_items[2]["id"]

\* ------------------------------------------------------- the status polls
\* the steps of one job during which its progress indicator is open
IndicatorOpen == pc \in {"records", "post", "posted", "poll", "poll_terminal", "wait", "summary"}

\* get_job_status returns to its caller from the active listing
ActiveFoundStep == pc = "poll" /\ pc' \in {"records", "rename", "wait"}

\* C31: a poll that finds the job in the active listing advances the
\* indicator by the observed progress minus last_current, stores the observed
\* progress in last_current and does not touch finished; finished turns true
\* only in a poll that finds the job in the terminal listing; while a job is
\* polled the indicator equals last_current.
C31_PollAdvancesIndicator ==
    /\ [](IndicatorOpen => pbar_imported = last_current)
    /\ [][/\ ActiveFoundStep =>
                /\ pbar_imported' - pbar_imported = last_current' - last_current
                /\ finished' = finished
          /\ (finished' /\ ~finished) =>
                /\ pc = "poll_terminal"
                /\ jobs'[job_id].terminal_seen]_vars

C31_Witness ==
    /\ pc = "wait"
    /\ ~finished
    /\ last_current = 2
    /\ pbar_imported = 2

\* a transient failure of either listing: get_job_status calls itself again
\* with a client built with timeout = current_retry_timeout
PollRetryStep == pc \in {"poll", "poll_terminal"} /\ pc' = "poll"

\* C32: the client that retries a status poll after a timeout, 502 or 504 of
\* either listing has the timeout RETRY_TIMEOUT_START after a successful
\* query and twice the previous one after a failure; a successful query
\* resets the escalation; any other error status is raised.
C32_PollRetryTimeoutEscalates ==
    [][/\ PollRetryStep =>
            current_retry_timeout' = NextRetryTimeout(current_retry_timeout)
       /\ (pc = "poll" /\ pc' \notin {"poll", "aborted"}) =>
            current_retry_timeout' = 0
       /\ (pc \in {"poll", "poll_terminal"} /\ raised' # raised) =>
            /\ pc' = "aborted"
            /\ raised'.exc = "HTTPStatusError" => raised'.status \in OtherErrorStatuses]_vars

\* C33: once a poll made during streaming has seen the job in the terminal
\* listing, no batch is submitted to that job any more.
C33_NoBatchAfterFinished ==
    (finished /\ jobs[job_id].terminal_seen) => pc \notin {"post", "posted"}

\* ------------------------------------------------------ one job per file
\* C34: a job starts with finished false and last_current 0, and the
\* metadata of its first batch are those of its own files: the counter is the
\* number of records decoded for the job, the total is the job's record count
\* and the batch is final exactly when the two are equal, whatever an earlier
\* job has archived.
C34_JobStartsFresh ==
    /\ pc = "read_total" => (~finished /\ last_current = 0)
    /\ (pc = "post" /\ posts = << >> /\ post_attempts = 0) =>
            /\ batch_payload.counter = counter
            /\ batch_payload.total = total_records
            /\ batch_payload.last = (counter = total_records)

\* ------------------------------------------------- conservation of records
\* process_records has returned for the current job
ProcessRecordsReturned == pc = "wait"

\* the records the reader has decoded in the files of the jobs run so far
DecodedSoFar ==
    { p \in (1..Len(import_files)) \X (1..MaxRecs) :
        /\ p[1] < file_i
        /\ p[2] <= Len(import_files[p[1]])
        /\ import_files[p[1]][p[2]] = "ok" }

\* C35: when process_records has returned for a job, no record is pending,
\* every record of the failed-batch archive is a decoded record written there
\* once, and total_records_sent counts the decoded records that are not in
\* the archive; total_records_sent never decreases.
C35_RecordsConserved ==
    /\ [](ProcessRecordsReturned =>
            /\ record_batch = << >>
            /\ RangeOf(failed_batches_file) \subseteq DecodedSoFar
            /\ Cardinality(RangeOf(failed_batches_file)) = Len(failed_batches_file)
            /\ total_records_sent + Len(failed_batches_file)
                   = Cardinality(DecodedSoFar))
    /\ [][total_records_sent' >= total_records_sent]_vars

C35_Witness ==
    /\ pc = "wait"
    /\ Len(failed_batches_file) = 2
    /\ total_records_sent = 1
    /\ job_id = 1

\* ------------------------------------------------------ polling terminates
\* import_marc_file has returned for job j after a successful summary fetch
SummaryFetched(j) ==
    /\ pc = "do_work"
    /\ job_id = j
    /\ jobs[j].summary_returned
    /\ current_retry_timeout = 0
    /\ ~finished
    /\ last_current = 0

\* C36 as claimed: once all batches of a job are submitted, and unless an
\* exception ends the run, import_marc_file leaves the polling loop, has one
\* summary request succeed and resets finished and last_current.
C36_PollingEndsWithSummary ==
    \A j \in 1..MaxFiles :
        (pc = "wait" /\ job_id = j) ~> (SummaryFetched(j) \/ pc = "aborted")

\* import_marc_file returns: do_work has the control again
JobLeft == pc # "do_work" /\ pc' = "do_work"

\* C36 as amended: once all batches of a job are submitted, and unless an
\* exception ends the run, import_marc_file leaves the polling loop and
\* returns; when it returns the summary fetch of the job has succeeded or was
\* given up and finished and last_current are reset; no summary is requested
\* for a job after that.
C36_PollingTerminates ==
    /\ pc = "wait" ~> pc \in {"do_work", "aborted"}
    /\ [][JobLeft =>
            /\ jobs'[job_id].summary_returned
            /\ ~finished'
            /\ last_current' = 0]_vars
    /\ [][(summary_requests' # summary_requests /\ job_id' = job_id) =>
             (pc = "summary" /\ ~jobs[job_id].summary_returned)]_vars

C36_Witness ==
    /\ SummaryFetched(1)
    /\ summary_requests = 2
    /\ jobs[1].terminal_seen

\* -------------------------------------------- two units with one match key
\* the lookup of unit i found no user and its create request is the next step
CreatePending(i) == task[i].pc = "write" /\ ~task[i].existing_user

\* C37: of two units that carry the same match-key value, for which no user
\* exists remotely, at most one gets to send a create request: they are never
\* both past a lookup that found nothing with the user still to be created.
C37_OneCreatePerKey ==
    \A i, j \in DOMAIN user_lines :
        (/\ i # j
         /\ user_lines[i].key = user_lines[j].key
         /\ user_lines[i].key \notin remote_users) =>
            ~(CreatePending(i) /\ CreatePending(j))

\* ------------------------------------------- the preference that is created
\* C38: the preference created for a unit whose candidate carries a request
\* preference, when no existing preference was found, has the candidate's
\* values and not the default ones.
C38_CandidatePreferenceCreated ==
    \A k \in RequestsOf({"create_rp"}) :
        (line.requestPreference /\ ~existing_rp) =>
            requests[k].body = "candidate"

\* ------------------------------------------ a candidate without patronGroup
\* C39: a candidate that has no patronGroup field passes the reference
\* resolution without an exception and, when its unit has ended, is counted
\* in exactly one of created, updated and failed.
C39_NoPatronGroupPasses ==
    (line.decodable /\ line.patronGroup = "absent") =>
        /\ ~(unit_pc = "raised" /\ raised_at = "map_patron_groups")
        /\ unit_pc = "done" => logs.created + logs.updated + logs.failed = 1

\* C40: when do_work has reached its end, an archive file to which a record
\* was written still exists: wrap_up's emptiness check sees what was written.
C40_WrittenArchivesKept ==
    pc = "done" =>
        /\ bad_records_file # << >> => bad_file_exists
        /\ failed_batches_file # << >> => failed_file_exists

====
